---- MODULE Spec2Model ----
(***************************************************************************)
(* A model of pyvista's array validation layer.                            *)
(*                                                                         *)
(* The array checkers of pyvista/core/validate/array_checkers.py are       *)
(* translated statement by statement.  A call is one action: it draws its  *)
(* arguments from bounded sets, runs the checker on a small object store   *)
(* (heap) that holds the caller's object and every array the checker       *)
(* creates, and records the outcome: a normal return or the exception      *)
(* raised, with the parts of its message.                                  *)
(*                                                                         *)
(* Array-like objects are records                                          *)
(*    [kind, dtype, shape, data, den]                                      *)
(* kind  : "ndarray", "pyvista_ndarray", "list", "tuple", "number"         *)
(*         (a Python number) or "npscalar" (a numpy scalar such as the     *)
(*         item of an array);                                              *)
(* dtype : "bool", "int64", "float64" or "complex128";                     *)
(* shape : the tuple of extents;   data : the elements in row-major order, *)
(*         each an integer numerator over the object's denominator den    *)
(*         (den = 1 for whole numbers, so that 3.5 is 7 over den = 2).     *)
(***************************************************************************)
EXTENDS Integers, Sequences, FiniteSets, TLC

VARIABLES
    pc,        \* "idle" before the call, "done" after it, "again" after the second
    fn,        \* the function called
    arr,       \* the caller's object as it was when the call was made
    args,      \* the other arguments of the call
    heap,      \* the object store after the call; heap[InputRef] is the caller's object
    outcome,   \* how the call ended: kind "ok" or the exception and its message
    result,    \* what a validator returned: [ref, val]; ref 0 when nothing was returned
    trace,     \* the steps validate_array ran, in the order it ran them
    again,     \* how the validation of the returned value with the same arguments ended
    PICKLE_FORMAT,  \* pyvista.PICKLE_FORMAT, the format set by set_pickle_format
    disk       \* the file save_meshio wrote

vars == <<pc, fn, arr, args, heap, outcome, result, trace, again, PICKLE_FORMAT, disk>>

-----------------------------------------------------------------------------
(* Bounds of the model *)

MaxVal == 3        \* array elements are drawn from 1..MaxVal
MaxLen == 4        \* one-dimensional arrays have at most MaxLen elements
MaxExtent == 4     \* extents of the arrays handed to check_shape
MaxCalls == 3      \* set_pickle_format is called at most MaxCalls times
MaxCells == 3      \* a mesh has at most MaxCells cells

-----------------------------------------------------------------------------
(* Values, shapes and arrays *)

Values == 1..MaxVal

Names == {"Array", "Input"}

InputRef == 1

Max(a, b) == IF a >= b THEN a ELSE b
Min(a, b) == IF a <= b THEN a ELSE b

RECURSIVE Prod(_)
Prod(s) == IF s = <<>> THEN 1 ELSE Head(s) * Prod(Tail(s))

\* number of elements between consecutive indices of axis i (1-based), row-major
Stride(shape, i) == Prod(SubSeq(shape, i + 1, Len(shape)))

\* the multi-index (0-based entries) of the k-th element (0-based) in row-major order
Unravel(shape, k) == [i \in 1..Len(shape) |-> (k \div Stride(shape, i)) % shape[i]]

RECURSIVE RavelFrom(_, _, _)
RavelFrom(shape, idx, i) ==
    IF i > Len(shape) THEN 0
    ELSE idx[i] * Stride(shape, i) + RavelFrom(shape, idx, i + 1)

\* the row-major position (0-based) of multi-index idx
Ravel(shape, idx) == RavelFrom(shape, idx, 1)

MultiIndices(shape) == {Unravel(shape, k) : k \in 0..(Prod(shape) - 1)}

At(a, idx) == a.data[Ravel(a.shape, idx) + 1]

Obj(kind, dtype, shape, data) ==
    [kind |-> kind, dtype |-> dtype, shape |-> shape, data |-> data, den |-> 1]

\* a Python int
PyInt(v) == Obj("number", "int64", <<>>, <<v>>)

SeqsOfLen(S, n) == [1..n -> S]

ArraysOfShape(kind, dtype, shape) ==
    {Obj(kind, dtype, shape, d) : d \in SeqsOfLen(Values, Prod(shape))}

Shapes1D == {<<n>> : n \in 0..MaxLen}
Shapes2D == {<<0, 2>>, <<2, 0>>, <<1, 2>>, <<2, 1>>, <<2, 2>>}
DataShapes == {<<>>} \cup Shapes1D \cup Shapes2D

\* integer ndarrays with data, the inputs of the value checks
DataArrays == UNION {ArraysOfShape("ndarray", "int64", s) : s \in DataShapes}


-----------------------------------------------------------------------------
(* Outcomes of a call and the object store *)

Outcome(kind, name, text, vals, alts) ==
    [kind |-> kind, name |-> name, text |-> text, vals |-> vals, alts |-> alts]

Ok == Outcome("ok", "", "", <<>>, <<>>)

Raise(kind, name, text, vals) == Outcome(kind, name, text, vals, <<>>)

Failed(out) == out.kind # "ok"

\* a step of a checker: the store it leaves, how it ended, and the reference of the
\* object it made (0: none)
Step(h, out) == [h |-> h, out |-> out, r |-> 0]

Ref(h, r) == [h |-> h, out |-> Ok, r |-> r]

\* a new object: the store with it and its reference
Alloc(h, o) == Ref(Append(h, o), Len(h) + 1)

\* the statement after s: it runs when s returned, and s's exception propagates
Bind(s, K(_)) == IF Failed(s.out) THEN s ELSE K(s)

NoResult == [ref |-> 0, val |-> Obj("none", "none", <<>>, <<>>)]

-----------------------------------------------------------------------------
(* Python types and numpy dtypes *)

PyType(o) ==
    CASE o.kind = "number" ->
            (CASE o.dtype = "bool" -> "bool"
               [] o.dtype = "int64" -> "int"
               [] o.dtype = "float64" -> "float"
               [] OTHER -> "complex")
      [] o.kind = "npscalar" ->
            (CASE o.dtype = "bool" -> "np.bool_"
               [] o.dtype = "uint8" -> "np.uint8"
               [] o.dtype = "int64" -> "np.int64"
               [] o.dtype = "float64" -> "np.float64"
               [] OTHER -> "np.complex128")
      [] OTHER -> o.kind

\* the types whose instances isinstance() accepts for a class or tuple of classes
Instances(classinfo) ==
    CASE classinfo = "Real" ->
            {"bool", "int", "float", "np.uint8", "np.int64", "np.float64"}
      [] classinfo = "Number" ->
            {"bool", "int", "float", "complex",
             "np.uint8", "np.int64", "np.float64", "np.complex128"}
      [] classinfo = "(float, int)" -> {"bool", "int", "float", "np.float64"}
      [] classinfo = "(float, int, complex)" ->
            {"bool", "int", "float", "complex", "np.float64", "np.complex128"}
      [] classinfo = "(np.floating, np.integer)" ->
            {"np.uint8", "np.int64", "np.float64"}
      [] classinfo = "np.number" ->
            {"np.uint8", "np.int64", "np.float64", "np.complex128"}
      [] classinfo = "(Sequence, np.ndarray)" ->
            {"list", "tuple", "str", "ndarray", "pyvista_ndarray"}
      [] classinfo = "(int, tuple)" -> {"bool", "int", "tuple"}
      [] classinfo = "int" -> {"bool", "int"}
      [] OTHER -> {}

isinstance_ndarray(o) == o.kind \in {"ndarray", "pyvista_ndarray"}

\* np.issubdtype(dtype, base)
issubdtype(dtype, base) ==
    CASE base = "np.number" ->
            dtype \in {"uint8", "int32", "int64", "float32", "float64", "complex128"}
      [] base = "np.integer" -> dtype \in {"uint8", "int32", "int64"}
      [] base = "np.floating" -> dtype \in {"float32", "float64"}
      [] base = "float" -> dtype = "float64"
      [] base = "int" -> dtype = "int64"
      [] OTHER -> dtype = base

\* numpy.asarray of an array-like object: a new ndarray with its shape and elements
\* (of a str: a 0-dimensional array whose one element is the str)
cast_to_ndarray(o) ==
    IF o.kind = "str"
    THEN [o EXCEPT !.kind = "ndarray", !.shape = <<>>, !.data = <<Len(o.data)>>]
    ELSE [o EXCEPT !.kind = "ndarray"]

\* arr = arr if isinstance(arr, np.ndarray) else cast_to_ndarray(arr)
to_ndarray(h, r) ==
    IF isinstance_ndarray(h[r]) THEN Ref(h, r)
    ELSE Alloc(h, cast_to_ndarray(h[r]))

check_instance(o, classinfo, name) ==
    IF PyType(o) \in Instances(classinfo) THEN Ok
    ELSE Raise("TypeError", name, "must be an instance of", <<>>)

check_contains(item, container, name) ==
    IF item \in container THEN Ok
    ELSE Raise("ValueError", name, "is not valid", <<>>)

check_subdtype(dtype, bases, name) ==
    IF \E i \in 1..Len(bases) : issubdtype(dtype, bases[i]) THEN Ok
    ELSE Raise("TypeError", name, "has incorrect dtype", <<>>)

valid_type(definition, must_be_real) ==
    CASE definition = "abstract" -> (IF must_be_real THEN "Real" ELSE "Number")
      [] definition = "builtin" ->
            (IF must_be_real THEN "(float, int)" ELSE "(float, int, complex)")
      [] OTHER -> (IF must_be_real THEN "(np.floating, np.integer)" ELSE "np.number")

\* a variant of check_number that knows the abstract definition only
check_number_abstract(num, definition, must_be_real, name) ==
    IF Failed(check_contains(definition, {"abstract", "builtin", "numpy"}, "Input"))
    THEN check_contains(definition, {"abstract", "builtin", "numpy"}, "Input")
    ELSE check_instance(num, valid_type("abstract", must_be_real), name)

check_number(num, definition, must_be_real, name) ==
    IF Failed(check_contains(definition, {"abstract", "builtin", "numpy"}, "Input"))
    THEN check_contains(definition, {"abstract", "builtin", "numpy"}, "Input")
    ELSE check_instance(num, valid_type(definition, must_be_real), name)

\* a variant of dtype_checked that lets the TypeError of check_subdtype through
dtype_checked_uncaught(h, dtype, early, bases, name, text) ==
    IF dtype \in early THEN Step(h, Ok)
    ELSE Step(h, check_subdtype(dtype, bases, name))

\* a TypeError of the dtype check is raised again with the checker's own message
dtype_checked(h, dtype, early, bases, name, text) ==
    IF dtype \in early THEN Step(h, Ok)
    ELSE IF Failed(check_subdtype(dtype, bases, name))
         THEN Step(h, Raise("TypeError", name, text, <<>>))
    ELSE Step(h, Ok)

check_numeric(h, r, name) ==
    Bind(to_ndarray(h, r), LAMBDA c :
        dtype_checked(c.h, c.h[c.r].dtype,
                      {"int32", "int64", "float32", "float64", "complex128"},
                      <<"np.number">>, name, "must be numeric."))

\* a variant of check_real whose early return also takes complex128
check_real_early_complex(h, r, name) ==
    Bind(to_ndarray(h, r), LAMBDA c :
        dtype_checked(c.h, c.h[c.r].dtype,
                      {"int32", "int64", "float32", "float64", "complex128"},
                      <<"np.floating", "np.integer">>, name, "must have real numbers."))

check_real(h, r, name) ==
    Bind(to_ndarray(h, r), LAMBDA c :
        dtype_checked(c.h, c.h[c.r].dtype,
                      {"int32", "int64", "float32", "float64"},
                      <<"np.floating", "np.integer">>, name, "must have real numbers."))

\* numpy.floor of a numerator over den
Floor(x, den) == x - (x % den)

\* np.array_equal(arr, np.floor(arr))
equals_floor(a) == \A k \in 1..Len(a.data) : Floor(a.data[k], a.den) = a.data[k]

\* np.floor(arr): the ufunc has loops for boolean, integer and floating arrays only
np_floor(h, a) ==
    IF a.dtype = "bool" \/ issubdtype(a.dtype, "np.integer") \/ issubdtype(a.dtype, "np.floating")
    THEN Step(h, Ok)
    ELSE Step(h, Raise("TypeError", "", "ufunc 'floor' not supported for the input types", <<>>))

\* a variant of check_integerlike whose strict mode takes every number dtype
check_integerlike_any_number(h, r, strict, name) ==
    Bind(to_ndarray(h, r), LAMBDA c :
        IF strict THEN Step(c.h, check_subdtype(c.h[c.r].dtype, <<"np.number">>, "Input"))
        ELSE Bind(np_floor(c.h, c.h[c.r]), LAMBDA f :
                IF ~equals_floor(f.h[c.r])
                THEN Step(f.h, Raise("ValueError", name, "must have integer-like values.", <<>>))
                ELSE Step(f.h, Ok)))

check_integerlike(h, r, strict, name) ==
    Bind(to_ndarray(h, r), LAMBDA c :
        IF strict THEN Step(c.h, check_subdtype(c.h[c.r].dtype, <<"np.integer">>, "Input"))
        ELSE Bind(np_floor(c.h, c.h[c.r]), LAMBDA f :
                IF ~equals_floor(f.h[c.r])
                THEN Step(f.h, Raise("ValueError", name, "must have integer-like values.", <<>>))
                ELSE Step(f.h, Ok)))

-----------------------------------------------------------------------------
(* Views and copies of an ndarray *)

None == <<>>
Some(v) == <<v>>
IsNone(x) == x = <<>>

\* slice(start, stop).indices(n): the first index and the end index of the slice
SliceStart(start, n) ==
    IF IsNone(start) THEN 0
    ELSE IF start[1] < 0 THEN Max(start[1] + n, 0) ELSE Min(start[1], n)

SliceStop(stop, n) ==
    IF IsNone(stop) THEN n
    ELSE IF stop[1] < 0 THEN Max(stop[1] + n, 0) ELSE Min(stop[1], n)

\* a[..., start:stop, ...] with the slice on axis (0-based), the other axes whole
SliceAxis(a, axis, start, stop) ==
    LET n == a.shape[axis + 1]
        lo == SliceStart(start, n)
        hi == SliceStop(stop, n)
        newshape == [a.shape EXCEPT ![axis + 1] = Max(hi - lo, 0)]
    IN [a EXCEPT
          !.shape = newshape,
          !.data = [k \in 1..Prod(newshape) |->
                      LET idx == Unravel(newshape, k - 1)
                      IN a.data[Ravel(a.shape, [idx EXCEPT ![axis + 1] = @ + lo]) + 1]]]

\* the value of arr.flatten(): the elements in row-major order, one axis
flattened(a) == [a EXCEPT !.shape = <<Len(a.data)>>]

\* a variant of ndarray_flatten that changes the shape of the array in place
ndarray_flatten_in_place(h, r) == Ref([h EXCEPT ![r] = flattened(h[r])], r)

\* arr = arr.flatten(): a copy is made and the local name is bound to it
ndarray_flatten(h, r) == Alloc(h, flattened(h[r]))

\* np.all(x OP y) for arrays of one shape, or an array and a scalar (broadcast)
Cmp(op, x, xden, y, yden) ==
    CASE op = "<" -> x * yden < y * xden
      [] op = "<=" -> x * yden <= y * xden
      [] op = ">" -> x * yden > y * xden
      [] OTHER -> x * yden >= y * xden

all_cmp(op, a, b) ==
    \A k \in 1..Len(a.data) :
        Cmp(op, a.data[k], a.den, b.data[IF b.shape = <<>> THEN 1 ELSE k], b.den)

\* arr[i] of a one-dimensional array: a numpy scalar
getitem(a, i) == [a EXCEPT !.kind = "npscalar", !.shape = <<>>, !.data = <<a.data[i + 1]>>]

-----------------------------------------------------------------------------
(* check_greater_than, check_less_than *)

\* a variant of compare_all that always allows equality
compare_all_inclusive(h, a, op, op_eq, value, strict, name, text) ==
    IF ~all_cmp(op_eq, a, value)
    THEN Step(h, Raise("ValueError", name,
                       IF strict THEN text ELSE text \o " or equal to", value.data))
    ELSE Step(h, Ok)

\* the comparison of check_greater_than and check_less_than, and its error
compare_all(h, a, op, op_eq, value, strict, name, text) ==
    IF strict /\ ~all_cmp(op, a, value)
    THEN Step(h, Raise("ValueError", name, text, value.data))
    ELSE IF ~all_cmp(op_eq, a, value)
         THEN Step(h, Raise("ValueError", name, text \o " or equal to", value.data))
    ELSE Step(h, Ok)

\* check_number(value); check_real(value)
check_value(h, value) ==
    Bind(Step(h, check_number(value, "abstract", TRUE, "Object")), LAMBDA n :
    Bind(Alloc(n.h, value), LAMBDA v :
        check_real(v.h, v.r, "Array")))

check_greater_than(h, r, value, strict, name) ==
    Bind(to_ndarray(h, r), LAMBDA c :
    Bind(check_value(c.h, value), LAMBDA v :
        compare_all(v.h, v.h[c.r], ">", ">=", value, strict, name,
                    "values must all be greater than")))

check_less_than(h, r, value, strict, name) ==
    Bind(to_ndarray(h, r), LAMBDA c :
    Bind(check_value(c.h, value), LAMBDA v :
        compare_all(v.h, v.h[c.r], "<", "<=", value, strict, name,
                    "values must all be less than")))

check_nonnegative(h, r, name) == check_greater_than(h, r, PyInt(0), FALSE, name)

-----------------------------------------------------------------------------
(* check_shape and _validate_shape_value *)

\* A shape argument: an int, a tuple of items, None or a float.  dims holds the
\* int (one entry) or the tuple's items; item is the Python type of the items.
ShapeLike(kind, item, dims) == [kind |-> kind, item |-> item, dims |-> dims]
ShapeInt(i) == ShapeLike("int", "int", <<i>>)
ShapeTuple(dims) == ShapeLike("tuple", "int", dims)
ShapeNone == ShapeLike("None", "None", <<>>)
ShapeFloat(f) == ShapeLike("float", "float", <<f>>)

_is_valid_dim(kind, d) == kind = "int" /\ d >= -1

\* the shapes _validate_shape_value returns at once
CommonShapes == {<<-1>>, <<1>>, <<3>>, <<2>>, <<1, 3>>, <<-1, 3>>}

check_iterable_items(shape, item_type, name) ==
    IF shape.item = item_type THEN Ok
    ELSE Raise("TypeError", name, "All items must be an instance of", <<>>)

\* the checks that raise the error of a shape that is not valid
raise_invalid_shape(h, shape) ==
    Bind(Step(h, check_instance(Obj(shape.kind, "int64", <<>>, <<>>), "(int, tuple)",
                                "Shape")), LAMBDA i :
    Bind(Step(i.h, IF shape.kind = "int" THEN Ok
                   ELSE check_iterable_items(shape, "int", "Shape")), LAMBDA it :
    Bind(Alloc(it.h, Obj("tuple", "int64", <<Len(shape.dims)>>, shape.dims)), LAMBDA t :
    Bind(check_greater_than(t.h, t.r, PyInt(-1), FALSE, "Shape"), LAMBDA gt :
        Step(gt.h, Raise("RuntimeError", "", "This line should not be reachable.", <<>>))))))

\* a step with the tuple form of the shape
Shape(h, dims) == [h |-> h, out |-> Ok, r |-> 0, shape |-> dims]

\* the tuple form of a shape argument, or the error raised for it; a tuple is compared
\* with the common shapes by ==, which holds of numbers of equal value (3.0 == 3)
_validate_shape_value(h, shape) ==
    IF shape.kind = "None"
    THEN Step(h, Raise("TypeError", "", "None is not a valid shape. Use () instead.", <<>>))
    ELSE IF shape.kind = "tuple" /\ shape.dims = <<>> THEN Shape(h, shape.dims)
    ELSE IF shape.kind = "tuple" /\ shape.item \in {"int", "float"}
            /\ shape.dims \in CommonShapes
         THEN Shape(h, shape.dims)
    ELSE IF _is_valid_dim(shape.kind, shape.dims[1]) THEN Shape(h, shape.dims)
    ELSE IF shape.kind = "tuple"
            /\ \A i \in 1..Len(shape.dims) : _is_valid_dim(shape.item, shape.dims[i])
         THEN Shape(h, shape.dims)
    ELSE raise_invalid_shape(h, shape)

\* a variant of _shape_is_allowed that knows no wildcard
shape_is_allowed_exact(a, b) ==
    Len(a) = Len(b) /\ \A i \in 1..Len(a) : a[i] = b[i]

\* a: the array's actual shape, b: an allowed shape (may have -1)
_shape_is_allowed(a, b) ==
    Len(a) = Len(b) /\ \A i \in 1..Len(a) : (IF a[i] = b[i] THEN TRUE ELSE b[i] = -1)

\* The shape argument of check_shape: one ShapeLike, or a list of them.
ShapeArg(is_list, alts) == [is_list |-> is_list, alts |-> alts]

\* the loop over the allowed shapes, from the i-th on
RECURSIVE check_shape_loop(_, _, _, _, _)
check_shape_loop(h, a, shapes, i, name) ==
    IF i > Len(shapes)
    THEN Step(h, Outcome("ValueError", name,
                         IF Len(shapes) = 1 THEN "Shape must be" ELSE "Shape must be one of",
                         a.shape, shapes))
    ELSE Bind(_validate_shape_value(h, shapes[i]), LAMBDA v :
            IF _shape_is_allowed(a.shape, v.shape) THEN Step(v.h, Ok)
            ELSE check_shape_loop(v.h, a, shapes, i + 1, name))

\* a variant of check_shape whose message lists the tuple forms of the allowed shapes
check_shape_tuple_forms(h, r, shape, name) ==
    Bind(to_ndarray(h, r), LAMBDA c :
        check_shape_loop(c.h, c.h[c.r],
                         [i \in 1..Len(shape.alts) |-> [shape.alts[i] EXCEPT !.kind = "tuple"]],
                         1, name))

\* the validation of every allowed shape, from the i-th on
RECURSIVE validate_shapes(_, _, _)
validate_shapes(h, shapes, i) ==
    IF i > Len(shapes) THEN Step(h, Ok)
    ELSE Bind(_validate_shape_value(h, shapes[i]), LAMBDA v :
            validate_shapes(v.h, shapes, i + 1))

\* a variant of check_shape that validates every allowed shape before it tests one
check_shape_eager(h, r, shape, name) ==
    Bind(to_ndarray(h, r), LAMBDA c :
    Bind(validate_shapes(c.h, shape.alts, 1), LAMBDA v :
        check_shape_loop(v.h, v.h[c.r], shape.alts, 1, name)))

check_shape(h, r, shape, name) ==
    Bind(to_ndarray(h, r), LAMBDA c :
        check_shape_loop(c.h, c.h[c.r], shape.alts, 1, name))

-----------------------------------------------------------------------------
(* check_sorted and check_range *)

\* arrays of at most this many elements are shown in check_sorted's message
SmallArraySize == 4

\* Python's index into a list of n items
PyIndex(i, n) == IF i < 0 THEN i + n ELSE i

\* the comparison of the ordering
sorted_op(ascending, strict) ==
    IF ascending /\ ~strict THEN "<="
    ELSE IF ascending /\ strict THEN "<"
    ELSE IF ~ascending /\ ~strict THEN ">="
    ELSE ">"

\* a variant of adjacent_sorted whose strict orders compare with <= and >=
adjacent_sorted_lax(a, axis, ascending, strict) ==
    all_cmp(sorted_op(ascending, FALSE),
            SliceAxis(a, PyIndex(axis, Len(a.shape)), None, Some(-1)),
            SliceAxis(a, PyIndex(axis, Len(a.shape)), Some(1), None))

\* np.all(arr[first] OP arr[second]): first and second are arr without its last and
\* without its first entry along axis
adjacent_sorted(a, axis, ascending, strict) ==
    all_cmp(sorted_op(ascending, strict),
            SliceAxis(a, PyIndex(axis, Len(a.shape)), None, Some(-1)),
            SliceAxis(a, PyIndex(axis, Len(a.shape)), Some(1), None))

sorted_order(ascending, strict) ==
    IF ascending
    THEN (IF strict THEN "must be sorted in strict ascending order."
          ELSE "must be sorted in ascending order.")
    ELSE (IF strict THEN "must be sorted in strict descending order."
          ELSE "must be sorted in descending order.")

\* a variant of sorted_compare that raises for the default name only
sorted_compare_default_name(h, r, axis, ascending, strict, name) ==
    IF adjacent_sorted(h[r], axis, ascending, strict) \/ name # "Array" THEN Step(h, Ok)
    ELSE Step(h, Raise("ValueError", name, sorted_order(ascending, strict), h[r].data))

\* a variant of sorted_compare that asks for a pair of adjacent elements
sorted_compare_some_pair(h, r, axis, ascending, strict, name) ==
    IF h[r].shape[PyIndex(axis, Len(h[r].shape)) + 1] >= 2
       /\ adjacent_sorted(h[r], axis, ascending, strict)
    THEN Step(h, Ok)
    ELSE Step(h, Raise("ValueError", name, sorted_order(ascending, strict),
                       IF Len(h[r].data) <= SmallArraySize THEN h[r].data
                       ELSE <<Len(h[r].data)>>))

\* the comparison of check_sorted and its error, on the array at reference r
sorted_compare(h, r, axis, ascending, strict, name) ==
    IF adjacent_sorted(h[r], axis, ascending, strict) THEN Step(h, Ok)
    ELSE Step(h, Raise("ValueError", name, sorted_order(ascending, strict),
                       IF Len(h[r].data) <= SmallArraySize THEN h[r].data
                       ELSE <<Len(h[r].data)>>))

RECURSIVE check_sorted(_, _, _, _, _, _)

\* a variant of check_range that hands strict_lower to both bound checks
check_range_one_flag(h, r, rng, strict_lower, strict_upper, name) ==
    Bind(Alloc(h, cast_to_ndarray(rng)), LAMBDA g :
    Bind(check_shape(g.h, g.r, ShapeArg(FALSE, <<ShapeInt(2)>>), "Range"), LAMBDA sh :
    Bind(check_sorted(sh.h, g.r, TRUE, FALSE, Some(-1), "Range"), LAMBDA so :
    Bind(to_ndarray(so.h, r), LAMBDA c :
    Bind(check_greater_than(c.h, c.r, getitem(c.h[g.r], 0), strict_lower, name), LAMBDA gt :
        check_less_than(gt.h, c.r, getitem(gt.h[g.r], 1), strict_lower, name))))))

\* a variant of check_range that compares with the upper bound first
check_range_upper_first(h, r, rng, strict_lower, strict_upper, name) ==
    Bind(Alloc(h, cast_to_ndarray(rng)), LAMBDA g :
    Bind(check_shape(g.h, g.r, ShapeArg(FALSE, <<ShapeInt(2)>>), "Range"), LAMBDA sh :
    Bind(check_sorted(sh.h, g.r, TRUE, FALSE, Some(-1), "Range"), LAMBDA so :
    Bind(to_ndarray(so.h, r), LAMBDA c :
    Bind(check_less_than(c.h, c.r, getitem(c.h[g.r], 1), strict_upper, name), LAMBDA lt :
        check_greater_than(lt.h, c.r, getitem(lt.h[g.r], 0), strict_lower, name))))))

check_range(h, r, rng, strict_lower, strict_upper, name) ==
    Bind(Alloc(h, cast_to_ndarray(rng)), LAMBDA g :
    Bind(check_shape(g.h, g.r, ShapeArg(FALSE, <<ShapeInt(2)>>), "Range"), LAMBDA sh :
    Bind(check_sorted(sh.h, g.r, TRUE, FALSE, Some(-1), "Range"), LAMBDA so :
    Bind(to_ndarray(so.h, r), LAMBDA c :
    Bind(check_greater_than(c.h, c.r, getitem(c.h[g.r], 0), strict_lower, name), LAMBDA gt :
        check_less_than(gt.h, c.r, getitem(gt.h[g.r], 1), strict_upper, name))))))

\* a variant of axis_in_range that lets the error of check_range through
axis_in_range_uncaught(cr, axis, ndim) == cr

\* except ValueError: raise ValueError("Axis ... is out of bounds for ndim ...")
axis_in_range(cr, axis, ndim) ==
    IF cr.out.kind = "ValueError"
    THEN Step(cr.h, Raise("ValueError", "Axis", "is out of bounds for ndim", <<axis, ndim>>))
    ELSE cr

\* the validation of an axis other than -1
validate_axis(h, axis, ndim) ==
    Bind(Step(h, check_number(PyInt(axis), "abstract", TRUE, "Axis")), LAMBDA n :
    Bind(Alloc(n.h, PyInt(axis)), LAMBDA x :
    Bind(check_integerlike(x.h, x.r, FALSE, "Axis"), LAMBDA il :
        axis_in_range(check_range(il.h, x.r,
                                  Obj("list", "int64", <<2>>, <<-ndim, ndim - 1>>),
                                  FALSE, FALSE, "Axis"),
                      axis, ndim))))

\* a variant of check_sorted that validates the axis of a 0-dimensional array too
check_sorted_axis_first(h, r, ascending, strict, axis, name) ==
    Bind(to_ndarray(h, r), LAMBDA c :
        IF IsNone(axis)
        THEN (IF Len(c.h[c.r].shape) = 0 THEN Step(c.h, Ok)
              ELSE Bind(ndarray_flatten(c.h, c.r), LAMBDA f :
                      sorted_compare(f.h, f.r, -1, ascending, strict, name)))
        ELSE Bind(IF axis[1] # -1 THEN validate_axis(c.h, axis[1], Len(c.h[c.r].shape))
                  ELSE Step(c.h, Ok), LAMBDA v :
                 IF Len(c.h[c.r].shape) = 0 THEN Step(v.h, Ok)
                 ELSE sorted_compare(v.h, c.r, PyIndex(axis[1], Len(c.h[c.r].shape)),
                                     ascending, strict, name)))

check_sorted(h, r, ascending, strict, axis, name) ==
    Bind(to_ndarray(h, r), LAMBDA c :
        IF Len(c.h[c.r].shape) = 0 THEN Step(c.h, Ok)
        ELSE IF IsNone(axis)
             THEN Bind(ndarray_flatten(c.h, c.r), LAMBDA f :
                      sorted_compare(f.h, f.r, -1, ascending, strict, name))
        ELSE Bind(IF axis[1] # -1 THEN validate_axis(c.h, axis[1], Len(c.h[c.r].shape))
                  ELSE Step(c.h, Ok), LAMBDA v :
                 sorted_compare(v.h, c.r, PyIndex(axis[1], Len(c.h[c.r].shape)),
                                ascending, strict, name)))

-----------------------------------------------------------------------------
(* check_scalar and check_length *)

check_scalar(h, r, must_be_real, name) ==
    IF isinstance_ndarray(h[r])
    THEN IF Len(h[r].shape) > 0
         THEN Step(h, Raise("ValueError", name, "must be a 0-dimensional array, got ndim",
                            <<Len(h[r].shape)>>))
         ELSE IF must_be_real THEN check_real(h, r, name)
         ELSE check_numeric(h, r, name)
    ELSE Step(h, check_number(h[r], "abstract", must_be_real, "Object"))

\* if allow_scalar: a number becomes np.array([arr]), a 0-d array arr.reshape((1,))
length_one(h, r, allow_scalar) ==
    IF allow_scalar /\ PyType(h[r]) \in Instances("Number")
    THEN Alloc(h, [h[r] EXCEPT !.kind = "ndarray", !.shape = <<1>>])
    ELSE IF allow_scalar /\ isinstance_ndarray(h[r]) /\ Len(h[r].shape) = 0
         THEN Alloc(h, [h[r] EXCEPT !.shape = <<1>>])
    ELSE Ref(h, r)

\* arr_len = len(arr)
len(h, r) ==
    IF Len(h[r].shape) = 0
    THEN Step(h, Raise("TypeError", "", "len() of unsized object", <<>>))
    ELSE Step(h, Ok)

\* arr_len in exact_length
contains(a, n) == \E k \in 1..Len(a.data) : a.data[k] = n * a.den

has_exact_length(h, arr_len, exact_length, name) ==
    IF IsNone(exact_length) THEN Step(h, Ok)
    ELSE Bind(Alloc(h, cast_to_ndarray(exact_length[1])), LAMBDA x :
         Bind(check_integerlike(x.h, x.r, FALSE, "'exact_length'"), LAMBDA il :
            IF contains(il.h[x.r], arr_len) THEN Step(il.h, Ok)
            ELSE Step(il.h, Raise("ValueError", name, "must have a length equal to any of",
                                  il.h[x.r].data \o <<arr_len>>))))

\* the validation of min_length or max_length; r is the reference of its array
length_bound(h, bound, name) ==
    IF IsNone(bound) THEN Ref(h, 0)
    ELSE Bind(Alloc(h, cast_to_ndarray(bound[1])), LAMBDA b :
         Bind(check_scalar(b.h, b.r, TRUE, name), LAMBDA sc :
         Bind(check_real(sc.h, b.r, name), LAMBDA re :
            Ref(re.h, b.r))))

\* check_sorted((min_length, max_length), name="Range")
bounds_sorted(h, lo, hi) ==
    IF lo = 0 \/ hi = 0 THEN Step(h, Ok)
    ELSE Bind(Alloc(h, [h[lo] EXCEPT !.kind = "tuple", !.shape = <<2>>,
                                     !.data = <<h[lo].data[1] * h[hi].den,
                                                h[hi].data[1] * h[lo].den>>,
                                     !.den = h[lo].den * h[hi].den]), LAMBDA t :
            check_sorted(t.h, t.r, TRUE, FALSE, Some(-1), "Range"))

\* a variant of within_lengths whose bounds are exclusive
within_lengths_exclusive(h, arr_len, lo, hi, name) ==
    IF lo # 0 /\ Cmp("<=", arr_len, 1, h[lo].data[1], h[lo].den)
    THEN Step(h, Raise("ValueError", name, "must have a minimum length of",
                       <<h[lo].data[1], arr_len>>))
    ELSE IF hi # 0 /\ Cmp(">=", arr_len, 1, h[hi].data[1], h[hi].den)
         THEN Step(h, Raise("ValueError", name, "must have a maximum length of",
                            <<h[hi].data[1], arr_len>>))
    ELSE Step(h, Ok)

within_lengths(h, arr_len, lo, hi, name) ==
    IF lo # 0 /\ Cmp("<", arr_len, 1, h[lo].data[1], h[lo].den)
    THEN Step(h, Raise("ValueError", name, "must have a minimum length of",
                       <<h[lo].data[1], arr_len>>))
    ELSE IF hi # 0 /\ Cmp(">", arr_len, 1, h[hi].data[1], h[hi].den)
         THEN Step(h, Raise("ValueError", name, "must have a maximum length of",
                            <<h[hi].data[1], arr_len>>))
    ELSE Step(h, Ok)

check_length(h, r, exact_length, min_length, max_length, must_be_1d, allow_scalar, name) ==
    Bind(length_one(h, r, allow_scalar), LAMBDA a :
    Bind(Step(a.h, check_instance(a.h[a.r], "(Sequence, np.ndarray)", name)), LAMBDA i :
    Bind(IF must_be_1d
         THEN check_shape(i.h, a.r, ShapeArg(FALSE, <<ShapeInt(-1)>>), "Array")
         ELSE Step(i.h, Ok), LAMBDA d :
    Bind(len(d.h, a.r), LAMBDA n :
    Bind(has_exact_length(n.h, n.h[a.r].shape[1], exact_length, name), LAMBDA e :
    Bind(length_bound(e.h, min_length, "Min length"), LAMBDA lo :
    Bind(length_bound(lo.h, max_length, "Max length"), LAMBDA hi :
    Bind(bounds_sorted(hi.h, lo.r, hi.r), LAMBDA so :
        within_lengths(so.h, so.h[a.r].shape[1], lo.r, hi.r, name)))))))))

-----------------------------------------------------------------------------
(* check_finite *)

\* the numerator that stands for the element inf
Inf == 1000

isfinite(a) == \A k \in 1..Len(a.data) : a.data[k] # Inf /\ a.data[k] # -Inf

check_finite(h, r, name) ==
    Bind(to_ndarray(h, r), LAMBDA c :
        IF isfinite(c.h[c.r]) THEN Step(c.h, Ok)
        ELSE Step(c.h, Raise("ValueError", name, "must have finite values.", <<>>)))

-----------------------------------------------------------------------------
(* numpy: conversion, reshape, broadcast_to, astype, tolist *)

\* the dtype numpy infers for a sequence: float for an empty one
inferred_dtype(o) ==
    IF o.kind \in {"list", "tuple"} /\ Len(o.data) = 0 THEN "float64" ELSE o.dtype

\* a variant of _cast_to_numpy that makes a new array of every input
_cast_to_numpy_new(h, r, as_any, copy) ==
    Alloc(h, [h[r] EXCEPT
                !.kind = IF as_any /\ @ = "pyvista_ndarray" THEN @ ELSE "ndarray",
                !.dtype = inferred_dtype(h[r])])

\* the array of an array-like: the object itself when it is an array of the type
\* asked for and no copy is asked for, else a new array
_cast_to_numpy(h, r, as_any, copy) ==
    IF ~copy /\ (h[r].kind = "ndarray" \/ (as_any /\ h[r].kind = "pyvista_ndarray"))
    THEN Ref(h, r)
    ELSE Alloc(h, [h[r] EXCEPT
                     !.kind = IF as_any /\ @ = "pyvista_ndarray" THEN @ ELSE "ndarray",
                     !.dtype = inferred_dtype(h[r])])

\* the product of the extents other than the wildcard
known_size(target) == Prod([i \in 1..Len(target) |-> IF target[i] = -1 THEN 1 ELSE target[i]])

wildcards(target) == {i \in 1..Len(target) : target[i] = -1}

can_reshape(size, target) ==
    /\ Cardinality(wildcards(target)) <= 1
    /\ IF wildcards(target) = {} THEN known_size(target) = size
       ELSE known_size(target) # 0 /\ size % known_size(target) = 0

inferred_extent(size, target, i) ==
    IF target[i] = -1 THEN size \div known_size(target) ELSE target[i]

\* the shape with its wildcard inferred from the size, as a tuple
new_shape(size, target) ==
    SubSeq([i \in 1..Len(target) |-> inferred_extent(size, target, i)], 1, Len(target))

\* arr.reshape(target): a new array on the same elements
ndarray_reshape(h, r, target) ==
    IF ~can_reshape(Len(h[r].data), target)
    THEN Step(h, Raise("ValueError", "", "cannot reshape array into shape",
                       <<Len(h[r].data)>> \o target))
    ELSE Alloc(h, [h[r] EXCEPT !.shape = new_shape(Len(h[r].data), target)])

\* size-1 axes expand, aligned at the last axis
can_broadcast(shape, target) ==
    /\ Len(shape) <= Len(target)
    /\ \A i \in 1..Len(shape) :
          shape[i] = 1 \/ shape[i] = target[i + Len(target) - Len(shape)]

broadcast_data(a, target) ==
    [k \in 1..Prod(target) |->
        a.data[Ravel(a.shape,
                     [i \in 1..Len(a.shape) |->
                        IF a.shape[i] = 1 THEN 0
                        ELSE Unravel(target, k - 1)[i + Len(target) - Len(a.shape)]]) + 1]]

broadcast_to(h, r, target) ==
    IF ~can_broadcast(h[r].shape, target)
    THEN Step(h, Raise("ValueError", "", "could not be broadcast to shape",
                       h[r].shape \o target))
    ELSE Alloc(h, [h[r] EXCEPT !.shape = target, !.data = broadcast_data(h[r], target)])

\* the integer a float numerator over den is cast to: its fraction is dropped
Trunc(x, den) == IF x >= 0 THEN x \div den ELSE -((-x) \div den)

\* arr.astype(dtype, copy=False)
astype(h, r, dtype) ==
    IF h[r].dtype = dtype THEN Ref(h, r)
    ELSE IF issubdtype(dtype, "np.integer")
         THEN Alloc(h, [h[r] EXCEPT !.dtype = dtype, !.den = 1,
                                    !.data = [k \in 1..Len(h[r].data) |->
                                                 Trunc(h[r].data[k], h[r].den)]])
    ELSE Alloc(h, [h[r] EXCEPT !.dtype = dtype])

\* a variant of to_sequence whose leaves are Python ints
to_sequence_whole(h, r, kind) ==
    Alloc(h, [h[r] EXCEPT !.kind = IF Len(h[r].shape) = 0 THEN "number" ELSE kind,
                          !.data = [k \in 1..Len(h[r].data) |-> Trunc(h[r].data[k], h[r].den)],
                          !.den = 1])

\* arr.tolist() and its tuple form: a nested sequence, or a number for a 0-d array
to_sequence(h, r, kind) ==
    Alloc(h, [h[r] EXCEPT !.kind = IF Len(h[r].shape) = 0 THEN "number" ELSE kind])

-----------------------------------------------------------------------------
(* validate_array *)

\* a variant of Stages that reshapes and broadcasts before every check
stages_transform_first ==
    <<"reshape_to", "broadcast_to", "must_be_real", "must_have_dtype", "must_have_shape",
      "must_have_length", "must_be_finite", "must_be_integer", "must_be_nonnegative",
      "must_be_in_range", "must_be_sorted">>

\* the steps of validate_array between the conversion of the input and the output,
\* in the order they run: real elements are required of the converted input, the
\* dtype and the shape are checked before the array is reshaped, the rest after
Stages ==
    <<"must_be_real", "must_have_dtype", "must_have_shape", "reshape_to", "broadcast_to",
      "must_have_length", "must_be_finite", "must_be_integer", "must_be_nonnegative",
      "must_be_in_range", "must_be_sorted">>

Transforms == {"reshape_to", "broadcast_to"}

\* the keyword of the step was given
requested(stage, kw) ==
    CASE stage = "must_have_dtype" -> ~IsNone(kw.must_have_dtype)
      [] stage = "must_have_shape" -> ~IsNone(kw.must_have_shape)
      [] stage = "reshape_to" -> ~IsNone(kw.reshape_to)
      [] stage = "broadcast_to" -> ~IsNone(kw.broadcast_to)
      [] stage = "must_have_length" -> ~IsNone(kw.must_have_length)
      [] stage = "must_be_real" -> kw.must_be_real
      [] stage = "must_be_finite" -> kw.must_be_finite
      [] stage = "must_be_integer" -> kw.must_be_integer
      [] stage = "must_be_nonnegative" -> kw.must_be_nonnegative
      [] stage = "must_be_in_range" -> ~IsNone(kw.must_be_in_range)
      [] OTHER -> kw.must_be_sorted

\* an array that has the shape asked for is left as it is
transformed(h, r, target, s) == IF h[r].shape = target THEN Ref(h, r) ELSE s

\* the step on the array at reference r
run_stage(stage, h, r, kw) ==
    CASE stage = "must_have_dtype" ->
            Step(h, check_subdtype(h[r].dtype, kw.must_have_dtype[1], kw.name))
      [] stage = "must_have_shape" -> check_shape(h, r, kw.must_have_shape[1], kw.name)
      [] stage = "reshape_to" -> transformed(h, r, kw.reshape_to[1],
                                             ndarray_reshape(h, r, kw.reshape_to[1]))
      [] stage = "broadcast_to" -> transformed(h, r, kw.broadcast_to[1],
                                               broadcast_to(h, r, kw.broadcast_to[1]))
      [] stage = "must_have_length" ->
            check_length(h, r, kw.must_have_length, None, None, FALSE, TRUE, kw.name)
      [] stage = "must_be_real" -> check_real(h, r, kw.name)
      [] stage = "must_be_finite" -> check_finite(h, r, kw.name)
      [] stage = "must_be_integer" -> check_integerlike(h, r, FALSE, kw.name)
      [] stage = "must_be_nonnegative" -> check_nonnegative(h, r, kw.name)
      [] stage = "must_be_in_range" ->
            check_range(h, r, kw.must_be_in_range[1], kw.strict_lower, kw.strict_upper,
                        kw.name)
      [] OTHER -> check_sorted(h, r, kw.ascending, kw.strict, kw.axis, kw.name)

\* the end of a validation: the store, the outcome, the array and the steps run
Validated(h, out, r, steps) == [h |-> h, out |-> out, r |-> r, trace |-> steps]

RECURSIVE run_stages(_, _, _, _, _)

\* after step i ended as s: its exception ends the validation
after_stage(s, r, kw, i, steps) ==
    IF Failed(s.out) THEN Validated(s.h, s.out, r, steps)
    ELSE run_stages(s.h, IF Stages[i] \in Transforms THEN s.r ELSE r, kw, i + 1, steps)

\* the steps from the i-th on
run_stages(h, r, kw, i, steps) ==
    IF i > Len(Stages) THEN Validated(h, Ok, r, steps)
    ELSE IF ~requested(Stages[i], kw) THEN run_stages(h, r, kw, i + 1, steps)
    ELSE after_stage(run_stage(Stages[i], h, r, kw), r, kw, i, Append(steps, Stages[i]))

\* the output of a validation v that passed: dtype_out, then to_tuple or to_list
coerced(v, s) == Validated(s.h, s.out, s.r, v.trace)

output(v, kw) ==
    IF kw.to_tuple THEN coerced(v, to_sequence(v.h, v.r, "tuple"))
    ELSE IF kw.to_list THEN coerced(v, to_sequence(v.h, v.r, "list"))
    ELSE v

coerce_dtype(v, kw) ==
    IF IsNone(kw.dtype_out) THEN v
    ELSE coerced(v, astype(v.h, v.r, kw.dtype_out[1]))

\* a list of lists or of arrays: data holds the rows
is_nested(o) == o.kind \in {"list_of_lists", "list_of_arrays"}

\* all the rows have the length of the first
rectangular(o) == \A i \in 1..Len(o.data) : Len(o.data[i]) = Len(o.data[1])

RECURSIVE concatenate(_)
concatenate(rows) ==
    IF rows = <<>> THEN <<>> ELSE Head(rows) \o concatenate(Tail(rows))

\* a variant of np_array_nested that makes an object array of ragged rows
np_array_nested_object(h, r, legacy_numpy) ==
    IF rectangular(h[r])
    THEN Alloc(h, [h[r] EXCEPT !.kind = "ndarray",
                               !.shape = <<Len(h[r].data), Len(h[r].data[1])>>,
                               !.data = concatenate(h[r].data)])
    ELSE Alloc(h, [h[r] EXCEPT !.kind = "ndarray", !.dtype = "object",
                               !.shape = <<Len(h[r].data)>>,
                               !.data = [i \in 1..Len(h[r].data) |-> 0]])

\* the array of a nested sequence: of rows of one length a 2-D array; ragged rows make
\* numpy raise (the cast raises ValueError) or, with an older numpy, make an object
\* array, which the cast refuses with TypeError
np_array_nested(h, r, legacy_numpy) ==
    IF rectangular(h[r])
    THEN Alloc(h, [h[r] EXCEPT !.kind = "ndarray",
                               !.shape = <<Len(h[r].data), Len(h[r].data[1])>>,
                               !.data = concatenate(h[r].data)])
    ELSE IF legacy_numpy
         THEN Step(h, Raise("TypeError", "", "Object arrays are not supported.", <<>>))
    ELSE Step(h, Raise("ValueError", "Array", "cannot be cast as numpy.ndarray", <<>>))

\* the conversion of the input of validate_array
wrap(h, r, kw) ==
    IF is_nested(h[r]) THEN np_array_nested(h, r, kw.legacy_numpy)
    ELSE _cast_to_numpy(h, r, kw.as_any, kw.copy)

validate_converted(w, kw) ==
    IF Failed(w.out) THEN Validated(w.h, w.out, 0, <<>>)
    ELSE Bind(run_stages(w.h, w.r, kw, 1, <<>>), LAMBDA v :
            output(coerce_dtype(v, kw), kw))

validate_array(h, r, kw) == validate_converted(wrap(h, r, kw), kw)

-----------------------------------------------------------------------------
(* validate_arrayNx3 and its mandatory keywords *)

\* the end of a specialization that raised before it validated
Refused(h, out) == Validated(h, out, 0, <<>>)

\* a variant of _set_default_kwarg_mandatory that replaces what the caller passed
_set_default_kwarg_overriding(kwargs, key, default) ==
    [out |-> Ok, kwargs |-> [kwargs EXCEPT ![key] = Some(default)]]

\* kwargs with key set to default; an error when key is set to another value
_set_default_kwarg_mandatory(kwargs, key, default) ==
    IF IsNone(kwargs[key]) \/ kwargs[key] = Some(default)
    THEN [out |-> Ok, kwargs |-> [kwargs EXCEPT ![key] = Some(default)]]
    ELSE [out |-> Raise("ValueError", key,
                        "cannot be set for function. Its value is automatically set to",
                        <<default>>),
          kwargs |-> kwargs]

Nx3 == ShapeTuple(<<-1, 3>>)

\* a variant of Nx3Shapes that allows (3,) without reshape too
Nx3ShapesWithFlat(reshape) == ShapeArg(TRUE, <<Nx3, ShapeTuple(<<3>>)>>)

\* the shapes validate_arrayNx3 allows
Nx3Shapes(reshape) ==
    IF reshape THEN ShapeArg(TRUE, <<Nx3, ShapeTuple(<<3>>)>>)
    ELSE ShapeArg(FALSE, <<Nx3>>)

shape_mandatory(h, r, k, reshape) ==
    IF Failed(k.out) THEN Refused(h, k.out)
    ELSE IF Failed(_set_default_kwarg_mandatory(k.kwargs, "must_have_shape",
                                                Nx3Shapes(reshape)).out)
         THEN Refused(h, _set_default_kwarg_mandatory(k.kwargs, "must_have_shape",
                                                     Nx3Shapes(reshape)).out)
    ELSE validate_array(h, r, _set_default_kwarg_mandatory(k.kwargs, "must_have_shape",
                                                           Nx3Shapes(reshape)).kwargs)

validate_arrayNx3(h, r, reshape, kwargs) ==
    shape_mandatory(h, r,
                    IF reshape
                    THEN _set_default_kwarg_mandatory(kwargs, "reshape_to", Nx3.dims)
                    ELSE [out |-> Ok, kwargs |-> kwargs],
                    reshape)

-----------------------------------------------------------------------------
(* read: the dispatch of a file to its reader *)

\* A path is a record [kind, suffixes, on_disk]: kind "str", the suffixes of its name
\* as written, and what the resolved path is on disk: "file", "dir" or "none".  A
\* sequence of paths is a record [kind, items] of kind "list".
PathOf(suffixes, on_disk) == [kind |-> "str", suffixes |-> suffixes, on_disk |-> on_disk]

PathList(items) == [kind |-> "list", items |-> items]

\* str.lower() of the suffixes and formats that occur
lower(s) ==
    CASE s = ".VTK" -> ".vtk"
      [] s = "VTK" -> "vtk"
      [] s = "XML" -> "xml"
      [] s = "Legacy" -> "legacy"
      [] s = ".E" -> ".e"
      [] s = ".PKL" -> ".pkl"
      [] s = ".GZ" -> ".gz"
      [] OTHER -> s

PICKLE_EXT == {".pkl", ".pickle"}

\* Path(filename).suffix
suffix(suffixes) == IF suffixes = <<>> THEN "" ELSE suffixes[Len(suffixes)]

\* the extension of the filename; with the suffix .gz also the extension before it
get_ext(filename) ==
    IF lower(suffix(filename.suffixes)) = ".gz"
    THEN lower(suffix(SubSeq(filename.suffixes, 1, Len(filename.suffixes) - 1))) \o ".gz"
    ELSE lower(suffix(filename.suffixes))

\* a str is true unless it is empty
truthy(option) == ~IsNone(option) /\ option[1] # ""

_get_ext_force(filename, force_ext) ==
    IF truthy(force_ext) THEN lower(force_ext[1]) ELSE get_ext(filename)

\* what a reader returned: the mesh, named after the reader that read it
Mesh(by, blocks) == [kind |-> "mesh", by |-> by, blocks |-> blocks]

NoMesh == Mesh("none", <<>>)

\* read returned or raised, after the calls in steps
Ended(out, mesh, steps) == [out |-> out, mesh |-> mesh, steps |-> steps]

\* meshio.read: meshio reads the file or raises its ReadError
read_meshio(env, steps) ==
    IF env.meshio_reads THEN Ended(Ok, Mesh("meshio", <<>>), steps \o <<"read_meshio">>)
    ELSE Ended(Raise("ReadError", "", "", <<>>), NoMesh, steps \o <<"read_meshio">>)

\* open(filename) and pickle.load
read_pickle(filename, steps) ==
    IF suffix(filename.suffixes) \in PICKLE_EXT
    THEN IF filename.on_disk = "dir"
         THEN Ended(Raise("IsADirectoryError", "", "", <<>>), NoMesh, steps \o <<"read_pickle">>)
         ELSE Ended(Ok, Mesh("pickle", <<>>), steps \o <<"read_pickle">>)
    ELSE Ended(Raise("ValueError", "", "Filename must be a file path with extension", <<>>),
              NoMesh, steps \o <<"read_pickle">>)

\* pyvista.get_reader: a reader of the extension, or ValueError
get_reader(filename, force_ext, env) == _get_ext_force(filename, force_ext) \in env.vtk_exts

\* a variant of read_fallback that tries meshio also when the extension is forced
read_fallback_forced(force_ext, env, steps) ==
    IF read_meshio(env, steps).out.kind # "ReadError" THEN read_meshio(env, steps)
    ELSE Ended(Raise("OSError", "", "This file was not able to be automatically read by pyvista.",
                    <<>>), NoMesh, read_meshio(env, steps).steps)

\* get_reader raised ValueError: meshio is tried unless the extension is forced
read_fallback(force_ext, env, steps) ==
    IF ~IsNone(force_ext)
    THEN Ended(Raise("OSError", "", "This file was not able to be automatically read by pyvista.",
                    <<>>), NoMesh, steps)
    ELSE IF read_meshio(env, steps).out.kind # "ReadError" THEN read_meshio(env, steps)
    ELSE Ended(Raise("OSError", "", "This file was not able to be automatically read by pyvista.",
                    <<>>), NoMesh, read_meshio(env, steps).steps)

\* the choice of the reader by the extension
read_by_ext(filename, ext, force_ext, env, steps) ==
    IF ext \in {".e", ".exo"} THEN Ended(Ok, Mesh("exodus", <<>>), steps \o <<"read_exodus">>)
    ELSE IF lower(ext) \in {".grdecl"}
         THEN Ended(Ok, Mesh("grdecl", <<>>), steps \o <<"read_grdecl">>)
    ELSE IF ext \in {".wrl", ".vrml"}
         THEN Ended(Raise("ValueError", "",
                         "VRML files must be imported directly into a Plotter.", <<>>),
                   NoMesh, steps)
    ELSE IF ext \in PICKLE_EXT THEN read_pickle(filename, steps)
    ELSE IF get_reader(filename, force_ext, env)
         THEN Ended(Ok, Mesh("vtk", <<>>), steps \o <<"get_reader", "reader.read">>)
    ELSE read_fallback(force_ext, env, steps \o <<"get_reader">>)

\* read of one path
read_path(filename, force_ext, file_format, env) ==
    IF filename.on_disk = "none"
    THEN Ended(Raise("FileNotFoundError", "", "not found", <<>>), NoMesh, <<"is_file">>)
    ELSE IF truthy(file_format) THEN read_meshio(env, <<"is_file">>)
    ELSE read_by_ext(filename, _get_ext_force(filename, force_ext), force_ext, env,
                     <<"is_file">>)

\* multi.append(read(each, file_format=file_format), name) for the items from the
\* i-th on: an item's exception ends the loop
RECURSIVE read_each(_, _, _, _, _)
read_each(items, i, file_format, env, multi) ==
    IF i > Len(items) THEN multi
    ELSE IF Failed(read_path(items[i], None, file_format, env).out)
         THEN Ended(read_path(items[i], None, file_format, env).out, NoMesh,
                   multi.steps \o read_path(items[i], None, file_format, env).steps)
    ELSE read_each(items, i + 1, file_format, env,
                   Ended(Ok,
                        Mesh("MultiBlock",
                             Append(multi.mesh.blocks,
                                    read_path(items[i], None, file_format, env).mesh)),
                        multi.steps \o read_path(items[i], None, file_format, env).steps))

read(filename, force_ext, file_format, env) ==
    IF ~IsNone(file_format) /\ ~IsNone(force_ext)
    THEN Ended(Raise("ValueError", "",
                    "Only one of file_format and force_ext may be specified.", <<>>),
              NoMesh, <<>>)
    ELSE IF filename.kind = "list"
         THEN read_each(filename.items, 1, file_format, env,
                        Ended(Ok, Mesh("MultiBlock", <<>>), <<>>))
    ELSE read_path(filename, force_ext, file_format, env)

-----------------------------------------------------------------------------
(* save_meshio and from_meshio *)

\* An unstructured grid is a record
\*    [points, celltypes, conn, faces, point_data, cell_data]
\* points: [dim, n], n points of dim coordinates; celltypes: the VTK type of every
\* cell; conn: the point ids of every cell; faces: the faces of every polyhedron (<<>>
\* for the other cells); point_data, cell_data: the arrays, as a sequence of
\* [key, values].
UnstructuredGrid(points, celltypes, conn, faces, point_data, cell_data) ==
    [points |-> points, celltypes |-> celltypes, conn |-> conn, faces |-> faces,
     point_data |-> point_data, cell_data |-> cell_data]

PIXEL == 8
VOXEL == 11
POLYHEDRON == 42

pixel_voxel == {PIXEL, VOXEL}

\* meshio's name of a VTK cell type (meshio knows no pixel and no voxel)
vtk_to_meshio_type(t) ==
    CASE t = 5 -> "triangle"
      [] t = 9 -> "quad"
      [] t = 10 -> "tetra"
      [] t = 12 -> "hexahedron"
      [] t = POLYHEDRON -> "polyhedron"
      [] OTHER -> "none"

meshio_to_vtk_type(name) ==
    CASE name = "triangle" -> 5
      [] name = "quad" -> 9
      [] name = "tetra" -> 10
      [] name = "hexahedron" -> 12
      [] OTHER -> POLYHEDRON

vtk_type_to_numnodes(t) ==
    CASE t = 5 -> 3
      [] t = 9 -> 4
      [] t = 10 -> 4
      [] OTHER -> 8

\* mesh.cells: of every cell the number of its points and its point ids
RECURSIVE cells_from(_, _)
cells_from(conn, i) ==
    IF i > Len(conn) THEN <<>>
    ELSE <<Len(conn[i])>> \o conn[i] \o cells_from(conn, i + 1)

cells_of(mesh) == cells_from(mesh.conn, 1)

\* mesh.offset: where the point ids of the i-th cell start in the connectivity
RECURSIVE offset_of(_, _)
offset_of(mesh, i) ==
    IF i = 1 THEN 0 ELSE offset_of(mesh, i - 1) + Len(mesh.conn[i - 1])

\* Python's a[k] and a[i:j] of an array, k, i and j counted from 0
py_item(a, k) == a[k + 1]

py_slice(a, i, j) == SubSeq(a, i + 1, Min(j, Len(a)))

\* cell[[0, 1, 3, 2]] and cell[[0, 1, 3, 2, 4, 5, 7, 6]]
reordered(cell, cell_type) ==
    IF cell_type = PIXEL THEN <<cell[1], cell[2], cell[4], cell[3]>>
    ELSE IF cell_type = VOXEL
         THEN <<cell[1], cell[2], cell[4], cell[3], cell[5], cell[6], cell[8], cell[7]>>
    ELSE cell

\* a block of meshio: the cells of one type that follow each other
CellBlock(type, points, data) == [type |-> type, points |-> points, data |-> data]

\* cells[-1][1].append(cell) if the last block is of the cell's type, a new block
\* otherwise; the type of a polyhedron carries the number of its points
append_cell(cells, type, points, cell) ==
    IF Len(cells) > 0 /\ cells[Len(cells)].type = type /\ cells[Len(cells)].points = points
    THEN [cells EXCEPT ![Len(cells)].data = Append(@, cell)]
    ELSE Append(cells, CellBlock(type, points, <<cell>>))

\* the loop over the cells ended with out and the blocks in cells
Cells(out, cells) == [out |-> out, cells |-> cells]

\* numnodes = vtk_cells[offset + c]
numnodes_at(mesh, i, c) == py_item(cells_of(mesh), offset_of(mesh, i) + c)

\* cell = vtk_cells[offset + 1 + c : offset + 1 + c + numnodes]
cell_at(mesh, i, c) ==
    py_slice(cells_of(mesh), offset_of(mesh, i) + 1 + c,
             offset_of(mesh, i) + 1 + c + numnodes_at(mesh, i, c))

\* the nodes the reordering of a pixel or voxel indexes
indexed(cell_type) == IF cell_type = PIXEL THEN 4 ELSE IF cell_type = VOXEL THEN 8 ELSE 0

\* the loop over the cells of the mesh from the i-th on; c counts the cells that are
\* not polyhedra
RECURSIVE get_cells(_, _, _, _)
get_cells(mesh, i, c, cells) ==
    IF i > Len(mesh.celltypes) THEN Cells(Ok, cells)
    ELSE IF mesh.celltypes[i] = POLYHEDRON
         THEN get_cells(mesh, i + 1, c,
                        append_cell(cells, "polyhedron", Len(mesh.conn[i]), mesh.faces[i]))
    ELSE IF Len(cell_at(mesh, i, c)) < indexed(mesh.celltypes[i])
         THEN Cells(Raise("IndexError", "", "index is out of bounds", <<>>), cells)
    ELSE get_cells(mesh, i + 1, c + 1,
                   append_cell(cells,
                               vtk_to_meshio_type(IF mesh.celltypes[i] \in pixel_voxel
                                                  THEN mesh.celltypes[i] + 1
                                                  ELSE mesh.celltypes[i]),
                               0, reordered(cell_at(mesh, i, c), mesh.celltypes[i])))

\* k.replace(' ', '_') of the keys that occur
replace_spaces(k) ==
    CASE k = "point ids" -> "point_ids"
      [] k = "cell ids" -> "cell_ids"
      [] OTHER -> k

\* [v[i1:i2] for i1, i2 in zip(indices[:-1], indices[1:])]: the values of every block
RECURSIVE split_by_block(_, _, _, _)
split_by_block(v, cells, k, i1) ==
    IF k > Len(cells) THEN <<>>
    ELSE <<py_slice(v, i1, i1 + Len(cells[k].data))>>
            \o split_by_block(v, cells, k + 1, i1 + Len(cells[k].data))

\* what meshio is given to write
MeshioMesh(points, cells, point_data, cell_data) ==
    [points |-> points, cells |-> cells, point_data |-> point_data,
     cell_data |-> cell_data]

NoFile == MeshioMesh([dim |-> 0, n |-> 0], <<>>, <<>>, <<>>)

\* save_meshio ended with out and the file it wrote
Saved(out, file) == [out |-> out, file |-> file]

\* a cell of the block has another number of nodes than the block's type
malformed(block) ==
    /\ block.type # "polyhedron"
    /\ \E k \in 1..Len(block.data) :
        Len(block.data[k]) # vtk_type_to_numnodes(meshio_to_vtk_type(block.type))

\* meshio.write_points_cells: meshio may refuse cells that do not fit their type
write_points_cells(mesh, meshio_checks) ==
    IF meshio_checks /\ \E b \in 1..Len(mesh.cells) : malformed(mesh.cells[b])
    THEN Saved(Raise("WriteError", "", "", <<>>), NoFile)
    ELSE Saved(Ok, mesh)

save_meshio(mesh, meshio_checks) ==
    IF \E i \in 1..Len(mesh.celltypes) :
            vtk_to_meshio_type(mesh.celltypes[i]) = "none"
            /\ mesh.celltypes[i] \notin pixel_voxel
    THEN Saved(Raise("TypeError", "", "meshio does not support VTK type", <<>>), NoFile)
    ELSE IF Failed(get_cells(mesh, 1, 0, <<>>).out)
         THEN Saved(get_cells(mesh, 1, 0, <<>>).out, NoFile)
    ELSE write_points_cells(
            MeshioMesh(mesh.points, get_cells(mesh, 1, 0, <<>>).cells,
                       [d \in 1..Len(mesh.point_data) |->
                            [mesh.point_data[d] EXCEPT !.key = replace_spaces(@)]],
                       [d \in 1..Len(mesh.cell_data) |->
                            [key |-> replace_spaces(mesh.cell_data[d].key),
                             values |-> split_by_block(mesh.cell_data[d].values,
                                                       get_cells(mesh, 1, 0, <<>>).cells,
                                                       1, 0)]]),
            meshio_checks)

\* connectivity += [len(face), *face] for the faces from the f-th on
RECURSIVE face_stream(_, _)
face_stream(cell, f) ==
    IF f > Len(cell) THEN <<>>
    ELSE <<Len(cell[f])>> \o cell[f] \o face_stream(cell, f + 1)

\* the cells of a block as VTK's cell array: of a polyhedron the length of its
\* stream, the number of its faces and the faces; of another cell the number of nodes
\* of its type and the cell
RECURSIVE block_cells(_, _)
block_cells(c, k) ==
    IF k > Len(c.data) THEN <<>>
    ELSE IF c.type = "polyhedron"
         THEN <<Len(face_stream(c.data[k], 1)) + 1, Len(c.data[k])>>
                \o face_stream(c.data[k], 1) \o block_cells(c, k + 1)
    ELSE <<vtk_type_to_numnodes(meshio_to_vtk_type(c.type))>> \o c.data[k]
            \o block_cells(c, k + 1)

RECURSIVE meshio_cells(_, _)
meshio_cells(cells, b) ==
    IF b > Len(cells) THEN <<>>
    ELSE block_cells(cells[b], 1) \o meshio_cells(cells, b + 1)

\* cell_type += [vtk_type] * len(c.data)
RECURSIVE meshio_cell_type(_, _)
meshio_cell_type(cells, b) ==
    IF b > Len(cells) THEN <<>>
    ELSE [k \in 1..Len(cells[b].data) |-> meshio_to_vtk_type(cells[b].type)]
            \o meshio_cell_type(cells, b + 1)

\* the point ids of a polyhedron: those of its faces, each once, in the order met
RECURSIVE unique(_, _, _)
unique(ids, k, seen) ==
    IF k > Len(ids) THEN seen
    ELSE IF \E j \in 1..Len(seen) : seen[j] = ids[k] THEN unique(ids, k + 1, seen)
    ELSE unique(ids, k + 1, Append(seen, ids[k]))

\* the n faces of the stream that starts at s[q]
RECURSIVE stream_faces(_, _, _)
stream_faces(s, q, n) ==
    IF n = 0 \/ q > Len(s) THEN <<>>
    ELSE <<SubSeq(s, q + 1, Min(q + s[q], Len(s)))>> \o stream_faces(s, q + s[q] + 1, n - 1)

\* the entries of the i-th cell in the cell array: those after the count at cells[p]
cell_entries(cells, p) ==
    IF p > Len(cells) THEN <<>> ELSE SubSeq(cells, p + 1, Min(p + cells[p], Len(cells)))

\* pyvista.UnstructuredGrid(cells, celltypes, points): the cells from the i-th on,
\* read from the cell array at p
RECURSIVE grid_cells(_, _, _, _, _)
grid_cells(cells, celltypes, i, p, grid) ==
    IF i > Len(celltypes) THEN grid
    ELSE IF celltypes[i] = POLYHEDRON /\ cell_entries(cells, p) # <<>>
         THEN grid_cells(cells, celltypes, i + 1, p + Len(cell_entries(cells, p)) + 1,
                         [grid EXCEPT
                            !.conn = Append(@, unique(concatenate(
                                        stream_faces(cell_entries(cells, p), 2,
                                                     cell_entries(cells, p)[1])), 1, <<>>)),
                            !.faces = Append(@, stream_faces(cell_entries(cells, p), 2,
                                                             cell_entries(cells, p)[1]))])
    ELSE grid_cells(cells, celltypes, i + 1, p + Len(cell_entries(cells, p)) + 1,
                    [grid EXCEPT !.conn = Append(@, cell_entries(cells, p)),
                                 !.faces = Append(@, <<>>)])

from_meshio(mesh) ==
    grid_cells(meshio_cells(mesh.cells, 1), meshio_cell_type(mesh.cells, 1), 1, 1,
               UnstructuredGrid([mesh.points EXCEPT !.dim = IF @ = 2 THEN 3 ELSE @],
                                meshio_cell_type(mesh.cells, 1), <<>>, <<>>,
                                [d \in 1..Len(mesh.point_data) |->
                                    [mesh.point_data[d] EXCEPT !.dtype = "float64"]],
                                [d \in 1..Len(mesh.cell_data) |->
                                    [key |-> mesh.cell_data[d].key,
                                     values |-> concatenate(mesh.cell_data[d].values)]]))

-----------------------------------------------------------------------------
(* set_pickle_format *)

supported == {"vtk", "xml", "legacy"}

\* a < b for version tuples (major, minor)
version_lt(a, b) == a[1] < b[1] \/ (a[1] = b[1] /\ a[2] < b[2])

\* the call ended with out and left pyvista.PICKLE_FORMAT as global
PickleFormat(out, global) == [out |-> out, PICKLE_FORMAT |-> global]

\* a variant of set_pickle_format that stores the format as it was given
set_pickle_format_as_given(current, format, vtk_version_info) ==
    IF lower(format) \notin supported
    THEN PickleFormat(Raise("ValueError", "", "Unsupported pickle format", <<>>), current)
    ELSE IF lower(format) = "vtk" /\ version_lt(vtk_version_info, <<9, 3>>)
         THEN PickleFormat(Raise("ValueError", "", "vtk pickle format requires VTK >= 9.3",
                                 <<>>), current)
    ELSE PickleFormat(Ok, format)

set_pickle_format(current, format, vtk_version_info) ==
    IF lower(format) \notin supported
    THEN PickleFormat(Raise("ValueError", "", "Unsupported pickle format", <<>>), current)
    ELSE IF lower(format) = "vtk" /\ version_lt(vtk_version_info, <<9, 3>>)
         THEN PickleFormat(Raise("ValueError", "", "vtk pickle format requires VTK >= 9.3",
                                 <<>>), current)
    ELSE PickleFormat(Ok, lower(format))

-----------------------------------------------------------------------------
(* The calls *)

NoObj == Obj("none", "none", <<>>, <<>>)

DefaultArgs ==
    [shape |-> ShapeArg(FALSE, <<>>),
     ascending |-> TRUE, strict |-> FALSE, axis |-> Some(-1),
     rng |-> NoObj, strict_lower |-> FALSE, strict_upper |-> FALSE,
     exact_length |-> None, min_length |-> None, max_length |-> None,
     must_be_1d |-> FALSE, allow_scalar |-> FALSE,
     must_have_dtype |-> None, must_have_shape |-> None, must_have_length |-> None,
     reshape_to |-> None, broadcast_to |-> None,
     must_be_real |-> TRUE, must_be_finite |-> FALSE, must_be_integer |-> FALSE,
     must_be_nonnegative |-> FALSE, must_be_in_range |-> None, must_be_sorted |-> FALSE,
     dtype_out |-> None, copy |-> FALSE, as_any |-> FALSE, legacy_numpy |-> FALSE,
     to_list |-> FALSE, to_tuple |-> FALSE, reshape |-> TRUE,
     definition |-> "abstract", value |-> PyInt(0),
     force_ext |-> None, file_format |-> None,
     vtk_version_info |-> <<9, 3>>, pickle_format |-> "vtk", meshio_checks |-> FALSE,
     env |-> [vtk_exts |-> {}, meshio_reads |-> FALSE],
     name |-> "Array"]

\* the arrays handed to check_shape: every shape of up to two axes
ShapeShapes ==
    {<<>>} \cup {<<n>> : n \in 0..MaxExtent}
           \cup {<<n, m>> : n \in 0..MaxExtent, m \in 0..MaxExtent}

Ones(kind, shape) == Obj(kind, "int64", shape, [k \in 1..Prod(shape) |-> 1])

ShapeArrays ==
    {Ones("ndarray", s) : s \in ShapeShapes}
        \cup {Ones("tuple", <<n>>) : n \in 0..MaxExtent}
        \cup {PyInt(0)}

\* the dimensions of the allowed shapes: invalid, wildcard and two extents
AltDims == {-2, -1, 3, 4}

ShapeLikes ==
    {ShapeNone, ShapeFloat(1)}
        \cup {ShapeInt(i) : i \in AltDims}
        \cup {ShapeTuple(<<>>)}
        \cup {ShapeTuple(<<i>>) : i \in AltDims}
        \cup {ShapeTuple(<<i, j>>) : i \in AltDims, j \in AltDims}

ShapeArgs ==
    {ShapeArg(FALSE, <<s>>) : s \in ShapeLikes}
        \cup {ShapeArg(TRUE, <<>>)}
        \cup {ShapeArg(TRUE, <<s>>) : s \in ShapeLikes}
        \cup {ShapeArg(TRUE, <<s, t>>) : s \in ShapeLikes, t \in ShapeLikes}

\* the caller chose a call of f on its object a with arguments ar
Chosen(f, a, ar) ==
    /\ fn = f
    /\ arr = a
    /\ args = ar

ChooseCheckShape ==
    \E a \in ShapeArrays, shape \in ShapeArgs :
        Chosen("check_shape", a, [DefaultArgs EXCEPT !.shape = shape])

Axes == {None} \cup {Some(k) : k \in -3..2}

\* the objects handed to check_sorted: the arrays, a Python int and a Python float
SortedInputs ==
    DataArrays \cup {PyInt(1), [PyInt(3) EXCEPT !.dtype = "float64", !.den = 2]}

\* the names of a call of check_sorted: the caller's own name with the arrays of up to
\* three elements, the default name with every array
SortedNames(a) == IF Len(a.data) <= 3 THEN Names ELSE {"Array"}

ChooseCheckSorted ==
    \E a \in SortedInputs, ascending \in BOOLEAN, strict \in BOOLEAN, axis \in Axes :
        \E name \in SortedNames(a) :
            Chosen("check_sorted", a,
                   [DefaultArgs EXCEPT !.ascending = ascending, !.strict = strict,
                                       !.axis = axis, !.name = name])

\* ranges: every pair of bounds around the values, and two of the wrong shape
RangeBounds == 0..(MaxVal + 1)

Ranges ==
    {Obj("list", "int64", <<2>>, <<lo, hi>>) : lo \in RangeBounds, hi \in RangeBounds}
        \cup {Obj("list", "int64", <<1>>, <<1>>), Obj("list", "int64", <<3>>, <<1, 2, 3>>)}

\* the arrays handed to check_range: of up to three elements
RangeArrays == {a \in DataArrays : Len(a.shape) <= 1 /\ Len(a.data) <= 3}

ChooseCheckRange ==
    \E a \in RangeArrays, rng \in Ranges, strict_lower \in BOOLEAN,
       strict_upper \in BOOLEAN :
        Chosen("check_range", a,
               [DefaultArgs EXCEPT !.rng = rng, !.strict_lower = strict_lower,
                                   !.strict_upper = strict_upper])

\* the objects handed to check_length: numbers, arrays and sequences
LengthArrays ==
    {PyInt(1), Obj("number", "complex128", <<>>, <<1>>), Obj("str", "str", <<2>>, <<1, 1>>)}
        \cup {Ones("ndarray", s) : s \in {<<>>, <<0>>, <<1>>, <<MaxLen>>, <<2, 3>>}}
        \cup {Ones("list", s) : s \in {<<0>>, <<1>>, <<MaxLen>>, <<2, 3>>}}

Lengths == 0..MaxLen

ExactLengths ==
    {None} \cup {Some(PyInt(n)) : n \in {1, MaxLen}}
           \cup {Some(Obj("list", "int64", <<2>>, <<1, 2>>)),
                 Some([Obj("list", "float64", <<2>>, <<2, 3>>) EXCEPT !.den = 2]),
                 Some([Obj("list", "float64", <<2>>, <<2, 4>>) EXCEPT !.den = 2])}

LengthBounds == {None, Some(Ones("ndarray", <<1>>))} \cup {Some(PyInt(n)) : n \in Lengths}

ChooseCheckLength ==
    \E a \in LengthArrays, exact_length \in ExactLengths, min_length \in LengthBounds,
       max_length \in LengthBounds, must_be_1d \in BOOLEAN, allow_scalar \in BOOLEAN,
       name \in Names :
        Chosen("check_length", a,
               [DefaultArgs EXCEPT !.exact_length = exact_length,
                                   !.min_length = min_length, !.max_length = max_length,
                                   !.must_be_1d = must_be_1d,
                                   !.allow_scalar = allow_scalar, !.name = name])

\* a float array: its elements are the numerators of halves
Halves(kind, shape, data) == [Obj(kind, "float64", shape, data) EXCEPT !.den = 2]

\* the objects handed to validate_array with constraints
ConstrainedArrays ==
    {Obj("ndarray", "int64", <<3>>, <<1, 2, 3>>),
     Obj("ndarray", "int64", <<3>>, <<3, 1, 2>>),
     Obj("ndarray", "int64", <<3>>, <<-1, 0, 1>>),
     Obj("ndarray", "int64", <<1, 3>>, <<1, 2, 3>>),
     Obj("ndarray", "int64", <<2, 2>>, <<1, 2, 3, 4>>),
     Obj("ndarray", "int64", <<0>>, <<>>),
     Obj("ndarray", "complex128", <<3>>, <<1, 2, 3>>),
     Obj("list", "int64", <<3>>, <<1, 2, 3>>),
     Obj("tuple", "int64", <<2, 2>>, <<1, 2, 3, 4>>),
     Obj("tuple", "bool", <<1>>, <<1>>),
     PyInt(2),
     Halves("ndarray", <<3>>, <<1, 2, 3>>),
     Halves("ndarray", <<3>>, <<2, Inf, 4>>)}

\* the objects handed to validate_array for the output it makes of them
OutputArrays ==
    {Obj("ndarray", "int64", <<3>>, <<1, 2, 3>>),
     Obj("ndarray", "int64", <<3>>, <<3, 1, 2>>),
     Obj("ndarray", "int64", <<1, 3>>, <<1, 2, 3>>),
     Obj("ndarray", "int64", <<2, 2>>, <<1, 2, 3, 4>>),
     Obj("ndarray", "int64", <<0>>, <<>>),
     Obj("ndarray", "int64", <<>>, <<2>>),
     Obj("pyvista_ndarray", "int64", <<3>>, <<1, 2, 3>>),
     Obj("list", "int64", <<3>>, <<1, 2, 3>>),
     Obj("list", "float64", <<0>>, <<>>),
     Obj("tuple", "int64", <<2, 2>>, <<1, 2, 3, 4>>),
     PyInt(2),
     Halves("ndarray", <<3>>, <<1, 2, 3>>),
     Halves("ndarray", <<3>>, <<2, 3, 4>>),
     Halves("ndarray", <<2, 2>>, <<1, 2, 2, 3>>)}

RealDtypes == {"int64", "float64"}

\* the value checks of a model array are numpy's for real elements only
RealFlags(a) == IF a.dtype \in RealDtypes THEN BOOLEAN ELSE {TRUE}

AnyN == ShapeArg(TRUE, <<ShapeTuple(<<>>), ShapeInt(-1), ShapeTuple(<<1, -1>>),
                        ShapeTuple(<<-1, 1>>)>>)

Only3 == ShapeArg(FALSE, <<ShapeTuple(<<3>>)>>)

Integers13 == Obj("list", "int64", <<2>>, <<1, 3>>)

\* calls that vary the constraints
ChooseConstraints ==
    \E a \in ConstrainedArrays :
    \E must_have_dtype \in {None, Some(<<"np.integer">>)},
       must_have_shape \in {None, Some(Only3), Some(AnyN)},
       reshape_to \in {None, Some(<<-1>>), Some(<<3>>)},
       must_have_length \in {None, Some(PyInt(3))},
       must_be_real \in RealFlags(a),
       flags \in [{"finite", "integer", "nonnegative", "sorted"} -> BOOLEAN],
       must_be_in_range \in {None, Some(Integers13)} :
        Chosen("validate_array", a,
               [DefaultArgs EXCEPT !.must_have_dtype = must_have_dtype,
                                   !.must_have_shape = must_have_shape,
                                   !.reshape_to = reshape_to,
                                   !.must_have_length = must_have_length,
                                   !.must_be_real = must_be_real,
                                   !.must_be_finite = flags["finite"],
                                   !.must_be_integer = flags["integer"],
                                   !.must_be_nonnegative = flags["nonnegative"],
                                   !.must_be_in_range = must_be_in_range,
                                   !.must_be_sorted = flags["sorted"]])

\* must_be_sorted and its strict option
Orders == {<<FALSE, FALSE>>, <<TRUE, FALSE>>, <<TRUE, TRUE>>}

\* calls that vary the output
ChooseOutput ==
    \E a \in OutputArrays,
       dtype \in {None, Some("int64"), Some("float64")},
       flags \in [{"copy", "as_any"} -> BOOLEAN],
       to \in {"array", "list", "tuple"},
       reshape_to \in {None, Some(<<-1>>), Some(<<1, 3>>)},
       broadcast \in {None, Some(<<2, 3>>)},
       must_have_dtype \in {None, Some(<<"np.floating">>)},
       order \in Orders :
        Chosen("validate_array", a,
               [DefaultArgs EXCEPT !.dtype_out = dtype,
                                   !.copy = flags["copy"], !.as_any = flags["as_any"],
                                   !.to_list = (to = "list"), !.to_tuple = (to = "tuple"),
                                   !.reshape_to = reshape_to, !.broadcast_to = broadcast,
                                   !.must_have_dtype = must_have_dtype,
                                   !.must_be_sorted = order[1],
                                   !.strict = order[2]])

\* a list of rows (lists or arrays) of the given lengths
Nested(kind, lengths) ==
    [Obj(kind, "int64", <<Len(lengths)>>, <<>>) EXCEPT
        !.data = [i \in 1..Len(lengths) |-> [k \in 1..lengths[i] |-> k]]]

\* nested sequences of up to MaxVal rows of up to MaxVal numbers, ragged or not
NestedInputs ==
    UNION {{Nested(kind, lengths) : lengths \in [1..n -> 0..MaxVal],
                                    kind \in {"list_of_lists", "list_of_arrays"}} :
           n \in 1..MaxVal}

\* calls of validate_array on nested sequences, with either numpy
ChooseNested ==
    \E a \in NestedInputs, legacy_numpy \in BOOLEAN, to_list \in BOOLEAN,
       reshape_to \in {None, Some(<<-1>>)} :
        Chosen("validate_array", a,
               [DefaultArgs EXCEPT !.legacy_numpy = legacy_numpy, !.to_list = to_list,
                                   !.reshape_to = reshape_to])

\* calls of validate_arrayNx3 with and without its mandatory keywords
ChooseNx3 ==
    \E a \in {Obj("tuple", "int64", <<3>>, <<1, 2, 3>>),
              Obj("list", "int64", <<2, 3>>, <<1, 2, 3, 4, 5, 6>>),
              Obj("list", "int64", <<4>>, <<1, 2, 3, 4>>),
              Obj("ndarray", "int64", <<1, 3>>, <<1, 2, 3>>),
              Obj("ndarray", "int64", <<3, 1>>, <<1, 2, 3>>),
              Obj("list", "int64", <<6>>, <<1, 2, 3, 4, 5, 6>>),
              PyInt(0)},
       reshape \in BOOLEAN,
       must_have_shape \in {None, Some(Nx3Shapes(TRUE)), Some(Nx3Shapes(FALSE)),
                            Some(Only3)},
       reshape_to \in {None, Some(Nx3.dims), Some(<<3>>)},
       name \in Names :
        Chosen("validate_arrayNx3", a,
               [DefaultArgs EXCEPT !.reshape = reshape,
                                   !.must_have_shape = must_have_shape,
                                   !.reshape_to = reshape_to, !.name = name])

\* arrays, sequences and numbers of every kind of dtype, whole and fractional
TypedData(dtype) ==
    CASE dtype \in {"float32", "float64"} -> {<<2, 4>>, <<2, 3>>}
      [] dtype = "bool" -> {<<1, 0>>}
      [] OTHER -> {<<1, 2>>}

Typed(kind, dtype, shape, data) ==
    [Obj(kind, dtype, shape, SubSeq(data, 1, Prod(shape))) EXCEPT
        !.den = IF dtype \in {"float32", "float64"} THEN 2 ELSE 1]

NumpyDtypes == {"bool", "uint8", "int32", "int64", "float32", "float64", "complex128", "str"}

\* the dtypes numpy infers for Python objects
PythonDtypes == {"bool", "int64", "float64", "complex128", "str"}

TypedArrays ==
    UNION {{Typed("ndarray", dtype, shape, data) : shape \in {<<>>, <<2>>},
                                                   data \in TypedData(dtype)} :
           dtype \in NumpyDtypes}

TypedObjects ==
    TypedArrays
        \cup UNION {{Typed("list", dtype, <<2>>, data) : data \in TypedData(dtype)} :
                    dtype \in PythonDtypes}
        \cup UNION {{Typed("number", dtype, <<>>, data) : data \in TypedData(dtype)} :
                    dtype \in PythonDtypes \ {"str"}}

ChooseCheckReal ==
    \E a \in TypedObjects, name \in Names :
        Chosen("check_real", a, [DefaultArgs EXCEPT !.name = name])

ChooseCheckNumeric ==
    \E a \in TypedObjects, name \in Names :
        Chosen("check_numeric", a, [DefaultArgs EXCEPT !.name = name])

ChooseCheckIntegerlike ==
    \E a \in TypedObjects, strict \in BOOLEAN, name \in Names :
        Chosen("check_integerlike", a, [DefaultArgs EXCEPT !.strict = strict, !.name = name])

\* the objects handed to check_scalar: also a str, a sequence of numbers and numpy scalars
ScalarObjects ==
    TypedObjects
        \cup {Obj("str", "str", <<1>>, <<1>>)}
        \cup {Typed("npscalar", dtype, <<>>, <<1>>) :
                dtype \in {"bool", "uint8", "int64", "float64", "complex128"}}

ChooseCheckScalar ==
    \E a \in ScalarObjects, must_be_real \in BOOLEAN, name \in {"Scalar", "Input"} :
        Chosen("check_scalar", a,
               [DefaultArgs EXCEPT !.must_be_real = must_be_real, !.name = name])

Definitions == {"abstract", "builtin", "numpy"}

ChooseCheckNumber ==
    \E num \in ScalarObjects, definition \in Definitions, must_be_real \in BOOLEAN,
       name \in {"Object", "_input"} :
        Chosen("check_number", num,
               [DefaultArgs EXCEPT !.definition = definition,
                                   !.must_be_real = must_be_real, !.name = name])

\* arrays, sequences and numbers with negative, zero and positive elements
Signs == {-1, 0, 1}

Signed(kind, dtype, shape) ==
    {Obj(kind, dtype, shape, d) : d \in SeqsOfLen(Signs, Prod(shape))}

SignedArrays ==
    UNION {Signed("ndarray", "int64", shape) : shape \in {<<>>, <<0>>, <<1>>, <<2>>, <<1, 2>>}}
        \cup Signed("list", "int64", <<2>>)
        \cup {[a EXCEPT !.den = 2] : a \in Signed("ndarray", "float64", <<2>>)}
        \cup {PyInt(v) : v \in Signs}

\* the value compared with: an int, or an object that is not a real number
ComparedValues ==
    {PyInt(v) : v \in Signs}
        \cup {Obj("number", "complex128", <<>>, <<1>>), Obj("ndarray", "int64", <<>>, <<0>>)}

ChooseCheckGreaterThan ==
    \E a \in SignedArrays, value \in ComparedValues, strict \in BOOLEAN,
       name \in {"Array", "_input"} :
        Chosen("check_greater_than", a,
               [DefaultArgs EXCEPT !.value = value, !.strict = strict, !.name = name])

ChooseCheckLessThan ==
    \E a \in SignedArrays, value \in ComparedValues, strict \in BOOLEAN,
       name \in {"Array", "_input"} :
        Chosen("check_less_than", a,
               [DefaultArgs EXCEPT !.value = value, !.strict = strict, !.name = name])

ChooseCheckNonnegative ==
    \E a \in SignedArrays, name \in {"Array", "_input"} :
        Chosen("check_nonnegative", a, [DefaultArgs EXCEPT !.name = name])

\* the values handed to _validate_shape_value: also tuples of floats of whole value
\* and a tuple of tuples (dims: the lengths of its items)
ShapeValues ==
    ShapeLikes \cup {ShapeLike("tuple", "float", <<3>>), ShapeLike("tuple", "float", <<4>>),
                     ShapeLike("tuple", "float", <<-1, 3>>),
                     ShapeLike("tuple", "tuple", <<2, 2>>)}

ChooseValidateShapeValue ==
    \E shape \in ShapeValues :
        Chosen("_validate_shape_value", NoObj,
               [DefaultArgs EXCEPT !.shape = ShapeArg(FALSE, <<shape>>)])

\* the paths handed to read: names with the suffixes that select a reader, in lower
\* and upper case, and what they are on disk
Suffixes ==
    {<<>>, <<".vtk">>, <<".VTK">>, <<".e">>, <<".E">>, <<".grdecl">>, <<".wrl">>,
     <<".pkl">>, <<".PKL">>, <<".obj">>, <<".nii", ".GZ">>}

Paths == {PathOf(sfx, on_disk) : sfx \in Suffixes, on_disk \in {"file", "dir", "none"}}

PathLists ==
    {PathList(<<>>)}
        \cup {PathList(<<PathOf(a, "file"), PathOf(b, on_disk)>>) :
                a \in {<<".vtk">>, <<".obj">>}, b \in {<<".VTK">>, <<".e">>, <<".obj">>},
                on_disk \in {"file", "none"}}

ForcedExts == {None, Some(""), Some(".vtk"), Some(".VTK"), Some(".e"), Some(".pkl"), Some(".obj")}

FileFormats == {None, Some(""), Some("obj")}

\* what is installed: the extensions pyvista.get_reader has a reader for, and whether
\* meshio can read the files
Environments == [vtk_exts : {{}, {".vtk", ".nii.gz"}}, meshio_reads : BOOLEAN]

ChooseRead ==
    \E filename \in Paths \cup PathLists, force_ext \in ForcedExts,
       file_format \in FileFormats, env \in Environments :
        Chosen("read", filename,
               [DefaultArgs EXCEPT !.force_ext = force_ext, !.file_format = file_format,
                                   !.env = env])

\* the formats handed to set_pickle_format
PickleFormats == {"vtk", "VTK", "xml", "XML", "legacy", "Legacy", "json", ""}

VTKVersions == {<<9, 2>>, <<9, 3>>}

\* the program starts with a format its VTK supports
ChooseSetPickleFormat ==
    \E version \in VTKVersions :
        \E format \in IF version_lt(version, <<9, 3>>) THEN {"xml", "legacy"} ELSE supported :
            Chosen("set_pickle_format", NoObj,
                   [DefaultArgs EXCEPT !.vtk_version_info = version,
                                       !.pickle_format = format])

\* a cell of a mesh: its VTK type, its point ids and, of a polyhedron, its faces
Cell(type, ids) == [type |-> type, conn |-> ids, faces |-> <<>>]

Polyhedron(faces) ==
    [type |-> POLYHEDRON, conn |-> unique(concatenate(faces), 1, <<>>), faces |-> faces]

\* two triangles, a quad, a pixel, a tetra, a voxel, a polyhedron of four triangles and
\* a triangle strip, which meshio does not know
CellChoices ==
    {Cell(5, <<0, 1, 2>>), Cell(5, <<1, 3, 2>>), Cell(9, <<0, 1, 3, 2>>),
     Cell(PIXEL, <<0, 1, 2, 3>>), Cell(10, <<0, 1, 2, 3>>),
     Cell(VOXEL, <<0, 1, 2, 3, 4, 5, 6, 7>>),
     Polyhedron(<<<<0, 1, 2>>, <<0, 1, 3>>, <<0, 2, 3>>, <<1, 2, 3>>>>),
     Cell(6, <<0, 1, 2, 3>>)}

CellLists == UNION {[1..n -> CellChoices] : n \in 1..MaxCells}

\* the mesh of the cells, with eight points, and with the arrays asked for
MeshOf(cells, with_point_data, with_cell_data) ==
    UnstructuredGrid([dim |-> 3, n |-> 8],
                     [i \in 1..Len(cells) |-> cells[i].type],
                     [i \in 1..Len(cells) |-> cells[i].conn],
                     [i \in 1..Len(cells) |-> cells[i].faces],
                     IF with_point_data
                     THEN <<[key |-> "point ids", dtype |-> "int64",
                             values |-> <<0, 1, 2, 3, 4, 5, 6, 7>>]>>
                     ELSE <<>>,
                     IF with_cell_data
                     THEN <<[key |-> "cell ids", values |-> [i \in 1..Len(cells) |-> i]]>>
                     ELSE <<>>)

ChooseSaveMeshio ==
    \E cells \in CellLists, with_point_data \in BOOLEAN, with_cell_data \in BOOLEAN,
       meshio_checks \in BOOLEAN :
        Chosen("save_meshio", MeshOf(cells, with_point_data, with_cell_data),
               [DefaultArgs EXCEPT !.meshio_checks = meshio_checks])

NotAgain == [outcome |-> Ok, val |-> NoObj]

\* before the call: the caller holds its object and has chosen the arguments
Init ==
    /\ pc = "idle"
    /\ \/ ChooseCheckShape
       \/ ChooseCheckSorted
       \/ ChooseCheckRange
       \/ ChooseCheckLength
       \/ ChooseConstraints
       \/ ChooseOutput
       \/ ChooseNested
       \/ ChooseNx3
       \/ ChooseCheckReal
       \/ ChooseCheckNumeric
       \/ ChooseCheckIntegerlike
       \/ ChooseCheckScalar
       \/ ChooseCheckNumber
       \/ ChooseCheckGreaterThan
       \/ ChooseCheckLessThan
       \/ ChooseCheckNonnegative
       \/ ChooseValidateShapeValue
       \/ ChooseRead
       \/ ChooseSetPickleFormat
       \/ ChooseSaveMeshio
    /\ heap = <<arr>>
    /\ outcome = Ok
    /\ result = NoResult
    /\ trace = <<>>
    /\ again = NotAgain
    /\ PICKLE_FORMAT = args.pickle_format
    /\ disk = NoFile

\* a checker returned or raised: step s is the store it leaves and how it ended
Checked(s) ==
    /\ pc' = "done"
    /\ heap' = s.h
    /\ outcome' = s.out
    /\ UNCHANGED <<fn, arr, args, disk, PICKLE_FORMAT, result, trace, again>>

\* a validator returned the array at v.r or raised
Returned(v) ==
    /\ pc' = "done"
    /\ heap' = v.h
    /\ outcome' = v.out
    /\ result' = IF Failed(v.out) THEN NoResult ELSE [ref |-> v.r, val |-> v.h[v.r]]
    /\ trace' = v.trace
    /\ UNCHANGED <<fn, arr, args, disk, PICKLE_FORMAT, again>>

\* the second validation returned or raised
Revalidated(v) ==
    /\ pc' = "again"
    /\ heap' = v.h
    /\ again' = [outcome |-> v.out, val |-> IF Failed(v.out) THEN NoObj ELSE v.h[v.r]]
    /\ UNCHANGED <<fn, arr, args, disk, PICKLE_FORMAT, outcome, result, trace>>

CheckShape ==
    /\ pc = "idle"
    /\ fn = "check_shape"
    /\ Checked(check_shape(heap, InputRef, args.shape, args.name))

CheckSorted ==
    /\ pc = "idle"
    /\ fn = "check_sorted"
    /\ Checked(check_sorted(heap, InputRef, args.ascending, args.strict, args.axis,
                            args.name))

CheckRange ==
    /\ pc = "idle"
    /\ fn = "check_range"
    /\ Checked(check_range(heap, InputRef, args.rng, args.strict_lower,
                           args.strict_upper, args.name))

CheckLength ==
    /\ pc = "idle"
    /\ fn = "check_length"
    /\ Checked(check_length(heap, InputRef, args.exact_length, args.min_length,
                            args.max_length, args.must_be_1d, args.allow_scalar,
                            args.name))

ValidateArray ==
    /\ pc = "idle"
    /\ fn = "validate_array"
    /\ Returned(validate_array(heap, InputRef, args))

\* the caller validates the value it got with the arguments of the first call
Revalidate ==
    /\ pc = "done"
    /\ fn = "validate_array"
    /\ outcome.kind = "ok"
    /\ Revalidated(validate_array(heap, result.ref, args))

ValidateArrayNx3 ==
    /\ pc = "idle"
    /\ fn = "validate_arrayNx3"
    /\ Returned(validate_arrayNx3(heap, InputRef, args.reshape, args))

CheckReal ==
    /\ pc = "idle"
    /\ fn = "check_real"
    /\ Checked(check_real(heap, InputRef, args.name))

CheckNumeric ==
    /\ pc = "idle"
    /\ fn = "check_numeric"
    /\ Checked(check_numeric(heap, InputRef, args.name))

CheckIntegerlike ==
    /\ pc = "idle"
    /\ fn = "check_integerlike"
    /\ Checked(check_integerlike(heap, InputRef, args.strict, args.name))

CheckScalar ==
    /\ pc = "idle"
    /\ fn = "check_scalar"
    /\ Checked(check_scalar(heap, InputRef, args.must_be_real, args.name))

CheckNumber ==
    /\ pc = "idle"
    /\ fn = "check_number"
    /\ Checked(Step(heap, check_number(heap[InputRef], args.definition, args.must_be_real,
                                       args.name)))

CheckGreaterThan ==
    /\ pc = "idle"
    /\ fn = "check_greater_than"
    /\ Checked(check_greater_than(heap, InputRef, args.value, args.strict, args.name))

CheckLessThan ==
    /\ pc = "idle"
    /\ fn = "check_less_than"
    /\ Checked(check_less_than(heap, InputRef, args.value, args.strict, args.name))

CheckNonnegative ==
    /\ pc = "idle"
    /\ fn = "check_nonnegative"
    /\ Checked(check_nonnegative(heap, InputRef, args.name))

\* the dtype numpy gives to items of a Python type
ItemDtype(item) ==
    CASE item = "int" -> "int64"
      [] item = "float" -> "float64"
      [] OTHER -> "object"

\* the tuple _validate_shape_value returned: the items are those of the argument
ShapeReturned(v, shape) ==
    /\ pc' = "done"
    /\ heap' = v.h
    /\ outcome' = v.out
    /\ result' = IF Failed(v.out) THEN NoResult
                 ELSE [ref |-> 0,
                       val |-> Obj("tuple", ItemDtype(shape.item), <<Len(v.shape)>>, v.shape)]
    /\ UNCHANGED <<fn, arr, args, disk, PICKLE_FORMAT, trace, again>>

ValidateShapeValue ==
    /\ pc = "idle"
    /\ fn = "_validate_shape_value"
    /\ ShapeReturned(_validate_shape_value(heap, args.shape.alts[1]), args.shape.alts[1])

\* read returned the mesh or raised
ReadEnded(e) ==
    /\ pc' = "done"
    /\ outcome' = e.out
    /\ result' = IF Failed(e.out) THEN NoResult ELSE [ref |-> 0, val |-> e.mesh]
    /\ trace' = e.steps
    /\ UNCHANGED <<fn, arr, args, disk, PICKLE_FORMAT, heap, again>>

ReadFile ==
    /\ pc = "idle"
    /\ fn = "read"
    /\ ReadEnded(read(arr, args.force_ext, args.file_format, args.env))

\* set_pickle_format(format) returned or raised; the call is added to the calls made
PickleFormatSet(s, format) ==
    /\ pc' = "done"
    /\ outcome' = s.out
    /\ PICKLE_FORMAT' = s.PICKLE_FORMAT
    /\ trace' = Append(trace, [format |-> format, raised |-> Failed(s.out)])
    /\ UNCHANGED <<fn, arr, args, disk, heap, result, again>>

SetPickleFormat ==
    /\ pc \in {"idle", "done"}
    /\ fn = "set_pickle_format"
    /\ Len(trace) < MaxCalls
    /\ \E format \in PickleFormats :
        PickleFormatSet(set_pickle_format(PICKLE_FORMAT, format, args.vtk_version_info),
                        format)

\* save_meshio wrote the file or raised
FileSaved(s) ==
    /\ pc' = IF Failed(s.out) THEN "done" ELSE "saved"
    /\ outcome' = s.out
    /\ disk' = s.file
    /\ UNCHANGED <<fn, arr, args, heap, result, trace, again, PICKLE_FORMAT>>

SaveMeshio ==
    /\ pc = "idle"
    /\ fn = "save_meshio"
    /\ FileSaved(save_meshio(arr, args.meshio_checks))

\* read_meshio of the file that was written: meshio.read, then from_meshio
ReadMeshio ==
    /\ pc = "saved"
    /\ fn = "save_meshio"
    /\ pc' = "done"
    /\ result' = [ref |-> 0, val |-> from_meshio(disk)]
    /\ UNCHANGED <<fn, arr, args, heap, outcome, trace, again, PICKLE_FORMAT, disk>>

Next ==
    \/ CheckShape
    \/ CheckSorted
    \/ CheckRange
    \/ CheckLength
    \/ ValidateArray
    \/ Revalidate
    \/ ValidateArrayNx3
    \/ CheckReal
    \/ CheckNumeric
    \/ CheckIntegerlike
    \/ CheckScalar
    \/ CheckNumber
    \/ CheckGreaterThan
    \/ CheckLessThan
    \/ CheckNonnegative
    \/ ValidateShapeValue
    \/ ReadFile
    \/ SetPickleFormat
    \/ SaveMeshio
    \/ ReadMeshio

Spec == Init /\ [][Next]_vars

-----------------------------------------------------------------------------
(* Properties of the checkers *)

Called(f) == pc = "done" /\ fn = f

\* an allowed shape that is a shape: an int or a tuple of ints, each at least -1
IsShape(s) ==
    /\ s.kind \in {"int", "tuple"}
    /\ s.item = "int"
    /\ \A i \in 1..Len(s.dims) : s.dims[i] >= -1

\* the allowed shape s has as many axes as the actual shape and on every axis its
\* extent or -1
Accepts(s, actual) ==
    /\ Len(s.dims) = Len(actual)
    /\ \A i \in 1..Len(actual) : s.dims[i] = actual[i] \/ s.dims[i] = -1

AllowedShapes == args.shape.alts

\* C1: check_shape returns if and only if one of the allowed shapes has the array's
\* number of axes and on every axis its extent or -1, and raises ValueError
\* otherwise; (-1, 3) accepts every (n, 3) array and rejects every (n, 4) array.
C1_CheckShapeIff ==
    (Called("check_shape") /\ \A i \in 1..Len(AllowedShapes) : IsShape(AllowedShapes[i]))
    => /\ outcome.kind = "ok"
            <=> \E i \in 1..Len(AllowedShapes) : Accepts(AllowedShapes[i], arr.shape)
       /\ outcome.kind \in {"ok", "ValueError"}
       /\ (AllowedShapes = <<ShapeTuple(<<-1, 3>>)>> /\ Len(arr.shape) = 2)
            => /\ arr.shape[2] = 3 => outcome.kind = "ok"
               /\ arr.shape[2] = 4 => outcome.kind = "ValueError"

C1_Witness ==
    /\ Called("check_shape")
    /\ AllowedShapes = <<ShapeTuple(<<-1, 3>>)>>
    /\ arr.shape = <<0, 3>>
    /\ outcome.kind = "ok"

\* the order a pair of adjacent elements must be in
InOrder(x, y, ascending, strict) ==
    IF ascending THEN (IF strict THEN x < y ELSE x <= y)
    ELSE (IF strict THEN x > y ELSE x >= y)

\* every pair of elements of a that are adjacent along axis ax (0-based) is in order
PairsInOrder(a, ax, ascending, strict) ==
    \A idx \in MultiIndices(a.shape) :
        idx[ax + 1] + 1 < a.shape[ax + 1]
        => InOrder(At(a, idx), At(a, [idx EXCEPT ![ax + 1] = @ + 1]), ascending, strict)

\* every pair of neighbours of the row-major flattening of a is in order
FlatInOrder(a, ascending, strict) ==
    \A k \in 1..(Len(a.data) - 1) : InOrder(a.data[k], a.data[k + 1], ascending, strict)

AxisInBounds(axis, ndim) == IsNone(axis) \/ (axis[1] >= -ndim /\ axis[1] < ndim)

Is1D(a, d) == a.shape = <<Len(d)>> /\ a.data = d

\* C2: check_sorted passes if and only if every pair of elements adjacent along the
\* chosen axis (the flattening when axis is None) is in the requested order, and
\* raises ValueError otherwise; [1,2,2,3] passes ascending and fails strict
\* ascending, [3,2,2,1] passes descending and fails strict descending.
C2_CheckSortedIff ==
    (Called("check_sorted") /\ AxisInBounds(args.axis, Len(arr.shape)))
    => /\ outcome.kind \in {"ok", "ValueError"}
       /\ outcome.kind = "ok"
            <=> IF Len(arr.shape) = 0 THEN TRUE
                ELSE IF IsNone(args.axis)
                     THEN FlatInOrder(arr, args.ascending, args.strict)
                ELSE PairsInOrder(arr, PyIndex(args.axis[1], Len(arr.shape)),
                                  args.ascending, args.strict)
       /\ (Is1D(arr, <<1, 2, 2, 3>>) /\ args.ascending)
            => (outcome.kind = "ok" <=> ~args.strict)
       /\ (Is1D(arr, <<3, 2, 2, 1>>) /\ ~args.ascending)
            => (outcome.kind = "ok" <=> ~args.strict)

C2_Witness ==
    /\ Called("check_sorted")
    /\ Is1D(arr, <<1, 2, 2, 3>>)
    /\ args.ascending /\ args.strict /\ args.axis = Some(-1)
    /\ outcome.kind = "ValueError"

ValidRange(rng) == rng.shape = <<2>> /\ rng.data[1] <= rng.data[2]

WithinRange(x, rng, strict_lower, strict_upper) ==
    /\ IF strict_lower THEN x > rng.data[1] ELSE x >= rng.data[1]
    /\ IF strict_upper THEN x < rng.data[2] ELSE x <= rng.data[2]

\* C3: for a range with lo <= hi, check_range passes if and only if every element is
\* within the bounds, each bound strict or inclusive on its own flag; [1,2,3] is
\* within [1,3] and is not with strict_upper.
C3_CheckRangeIff ==
    (Called("check_range") /\ ValidRange(args.rng))
    => /\ outcome.kind \in {"ok", "ValueError"}
       /\ outcome.kind = "ok"
            <=> \A k \in 1..Len(arr.data) :
                    WithinRange(arr.data[k], args.rng, args.strict_lower, args.strict_upper)
       /\ (Is1D(arr, <<1, 2, 3>>) /\ args.rng.data = <<1, 3>> /\ ~args.strict_lower)
            => (outcome.kind = "ok" <=> ~args.strict_upper)

C3_Witness ==
    /\ Called("check_range")
    /\ Is1D(arr, <<1, 2, 3>>)
    /\ args.rng.data = <<1, 3>>
    /\ ~args.strict_lower /\ args.strict_upper
    /\ outcome.kind = "ValueError"

-----------------------------------------------------------------------------
(* Properties of validate_array *)

First(S) == CHOOSE i \in S : \A j \in S : i <= j

\* the array validate_array makes of input a
AsGiven(a, kw) ==
    [a EXCEPT !.kind = IF a.kind = "pyvista_ndarray" /\ kw.as_any THEN @ ELSE "ndarray",
              !.dtype = inferred_dtype(a)]

CanReshape(o, kw) == IsNone(kw.reshape_to) \/ can_reshape(Len(o.data), kw.reshape_to[1])

Reshaped(o, kw) ==
    IF IsNone(kw.reshape_to) \/ ~CanReshape(o, kw) THEN o
    ELSE [o EXCEPT !.shape = new_shape(Len(o.data), kw.reshape_to[1])]

CanBroadcast(o, kw) == IsNone(kw.broadcast_to) \/ can_broadcast(o.shape, kw.broadcast_to[1])

Broadcasted(o, kw) ==
    IF IsNone(kw.broadcast_to) \/ ~CanBroadcast(o, kw) THEN o
    ELSE [o EXCEPT !.shape = kw.broadcast_to[1], !.data = broadcast_data(o, kw.broadcast_to[1])]

\* the array after the reshape and the broadcast that were asked for
Transformed(a, kw) == Broadcasted(Reshaped(AsGiven(a, kw), kw), kw)

CanTransform(a, kw) ==
    CanReshape(AsGiven(a, kw), kw) /\ CanBroadcast(Reshaped(AsGiven(a, kw), kw), kw)

\* how a step ends on array o
EndsOn(stage, o, kw) == run_stage(stage, <<o>>, 1, kw).out

Violates(stage, o, kw) == requested(stage, kw) /\ Failed(EndsOn(stage, o, kw))

\* the order the claim gives, every check on the transformed array
ClaimedOrder ==
    <<"must_have_dtype", "must_have_shape", "must_have_length", "must_be_real",
      "must_be_finite", "must_be_integer", "must_be_nonnegative", "must_be_in_range",
      "must_be_sorted">>

ClaimedViolations ==
    {i \in 1..Len(ClaimedOrder) : Violates(ClaimedOrder[i], Transformed(arr, args), args)}

FixedOrder ==
    <<"must_be_real", "must_have_dtype", "must_have_shape", "reshape_to", "broadcast_to",
      "must_have_length", "must_be_finite", "must_be_integer", "must_be_nonnegative",
      "must_be_in_range", "must_be_sorted">>

\* the array a step sees: the input as converted up to the reshape, the reshaped
\* array for the broadcast, the transformed array after it
SeenBy(stage, a, kw) ==
    IF stage \in {"must_be_real", "must_have_dtype", "must_have_shape", "reshape_to"}
    THEN AsGiven(a, kw)
    ELSE IF stage = "broadcast_to" THEN Reshaped(AsGiven(a, kw), kw)
    ELSE Transformed(a, kw)

Violations == {i \in 1..Len(FixedOrder) :
                  Violates(FixedOrder[i], SeenBy(FixedOrder[i], arr, args), args)}

IsRequested(stage) == requested(stage, args)

\* the steps up to the last one are run and the call ends as the last one does
EndsAt(last) ==
    /\ trace = SelectSeq(SubSeq(FixedOrder, 1, last), IsRequested)
    /\ outcome = IF IsRequested(FixedOrder[last])
                 THEN EndsOn(FixedOrder[last], SeenBy(FixedOrder[last], arr, args), args)
                 ELSE Ok

\* the call ends at the first step that fails, or after the last step
FailsFast(failing) == EndsAt(IF failing = {} THEN Len(FixedOrder) ELSE First(failing))

IsEmptySequence(a) == a.kind \in {"list", "tuple"} /\ Len(a.data) = 0

\* equal values: one type, one element type, one shape, the same elements
SameValue(a, b) ==
    /\ a.kind = b.kind
    /\ a.dtype = b.dtype \/ (IsEmptySequence(a) /\ IsEmptySequence(b))
    /\ a.shape = b.shape
    /\ \A k \in 1..Len(a.data) : a.data[k] * b.den = b.data[k] * a.den

\* C5 as stated: a value validate_array returned passes validate_array with the same
\* arguments, which returns an equal value.
C5_Original ==
    pc = "again" => again.outcome.kind = "ok" /\ SameValue(again.val, result.val)

\* the returned value has the shape and the dtype of the input
ShapeAndDtypeKept ==
    /\ AsGiven(result.val, args).shape = AsGiven(arr, args).shape
    /\ AsGiven(result.val, args).dtype = AsGiven(arr, args).dtype

\* C5: a value validate_array returned with the shape and the dtype of the input
\* passes validate_array with the same arguments, which returns an equal value.
C5_IdempotentWhenKept ==
    (pc = "again" /\ ShapeAndDtypeKept)
    => again.outcome.kind = "ok" /\ SameValue(again.val, result.val)

C5_Witness ==
    /\ pc = "again"
    /\ ShapeAndDtypeKept
    /\ arr.kind = "list" /\ arr.shape = <<3>>
    /\ args.to_tuple /\ args.must_be_sorted /\ args.strict
    /\ result.val.kind = "tuple"
    /\ again.val = result.val

\* the target is the shape the array has
Exactly(target, shape) == IsNone(target) \/ target[1] = shape

\* a native array that has the dtype and the shape asked for, to be returned as an
\* array and not as a copy
FastPath ==
    /\ arr.kind = "ndarray" \/ (arr.kind = "pyvista_ndarray" /\ args.as_any)
    /\ ~args.copy /\ ~args.to_list /\ ~args.to_tuple
    /\ IsNone(args.dtype_out) \/ args.dtype_out[1] = arr.dtype
    /\ Exactly(args.reshape_to, arr.shape)
    /\ Exactly(args.broadcast_to, arr.shape)

\* C6: validate_array returns the object it was given when that is a native array
\* with the dtype and the shape asked for, no conversion to a list or a tuple is
\* asked for and copy is not; with copy it never returns the object it was given.
C6_IdentityFastPath ==
    (Called("validate_array") /\ outcome.kind = "ok")
    => /\ FastPath => result.ref = InputRef
       /\ args.copy => result.ref # InputRef

C6_Witness ==
    /\ Called("validate_array")
    /\ FastPath
    /\ arr.shape = <<1, 3>>
    /\ args.reshape_to = Some(<<1, 3>>)
    /\ args.dtype_out = Some("int64")
    /\ outcome.kind = "ok"
    /\ result.ref = InputRef

\* the keywords validate_arrayNx3 sets itself, and the values it sets them to
MandatoryKeys == IF args.reshape THEN {"reshape_to", "must_have_shape"} ELSE {"must_have_shape"}

PreBound(key) == IF key = "reshape_to" THEN Nx3.dims ELSE Nx3Shapes(args.reshape)

Conflicts == {k \in MandatoryKeys : ~IsNone(args[k]) /\ args[k] # Some(PreBound(k))}

WithPreBound ==
    [args EXCEPT !.must_have_shape = Some(PreBound("must_have_shape")),
                 !.reshape_to = IF args.reshape THEN Some(PreBound("reshape_to")) ELSE @]

\* C7: validate_arrayNx3 called with a mandatory keyword unset or set to the value it
\* is bound to validates as validate_array does with the bound values; called with
\* another value it raises a ValueError that names the keyword and the bound value,
\* and nothing of the input has been converted or checked.
C7_MandatoryKeywords ==
    Called("validate_arrayNx3")
    => IF Conflicts = {}
       THEN /\ outcome = validate_array(<<arr>>, InputRef, WithPreBound).out
            /\ trace = validate_array(<<arr>>, InputRef, WithPreBound).trace
            /\ ~Failed(outcome) => Transformed(arr, WithPreBound).shape = result.val.shape
       ELSE /\ outcome.kind = "ValueError"
            /\ outcome.name \in Conflicts
            /\ outcome.vals = <<PreBound(outcome.name)>>
            /\ trace = <<>>
            /\ heap = <<arr>>
            /\ result = NoResult

\* a caller's shape that the input does not have either: the error is the one about
\* the keyword
C7_Witness ==
    /\ Called("validate_arrayNx3")
    /\ arr.shape = <<4>>
    /\ args.must_have_shape = Some(Only3)
    /\ outcome.kind = "ValueError"
    /\ outcome.name = "must_have_shape"
    /\ trace = <<>>

\* C8: after a call, whether it returned or raised, the object the caller passed has
\* the shape, dtype and elements it had before; the flattening in check_sorted and
\* the reshaping of a scalar in check_length make new objects.
C8_InputNotModified ==
    pc # "idle" => Len(heap) >= InputRef /\ heap[InputRef] = arr

C8_Witness ==
    /\ Called("check_sorted")
    /\ IsNone(args.axis)
    /\ arr.shape = <<2, 2>>
    /\ heap[InputRef] = arr
    /\ \E r \in 2..Len(heap) : heap[r] = flattened(arr)

\* the outcome of the call of checker f on object a with arguments ar
OutcomeOf(f, a, ar) ==
    CASE f = "check_shape" -> check_shape(<<a>>, InputRef, ar.shape, ar.name).out
      [] f = "check_sorted" ->
            check_sorted(<<a>>, InputRef, ar.ascending, ar.strict, ar.axis, ar.name).out
      [] f = "check_range" ->
            check_range(<<a>>, InputRef, ar.rng, ar.strict_lower, ar.strict_upper,
                        ar.name).out
      [] f = "check_length" ->
            check_length(<<a>>, InputRef, ar.exact_length, ar.min_length, ar.max_length,
                         ar.must_be_1d, ar.allow_scalar, ar.name).out

Checkers == {"check_shape", "check_sorted", "check_range", "check_length"}

-----------------------------------------------------------------------------
(* Properties of the error handling *)

\* the first axis check of check_sorted that fails on the axis, as check_sorted calls
\* it: check_range(axis, rng=[-arr.ndim, arr.ndim - 1], name="Axis")
AxisCheck(axis, ndim) ==
    check_range(<<PyInt(axis)>>, 1, Obj("list", "int64", <<2>>, <<-ndim, ndim - 1>>),
                FALSE, FALSE, "Axis").out

\* the error of the nested check where the violation of the finished call was detected
\* (Ok: no nested check of the call failed)
Detected ==
    CASE fn = "check_real" /\ arr.dtype \notin {"int32", "int64", "float32", "float64"} ->
            check_subdtype(arr.dtype, <<"np.floating", "np.integer">>, args.name)
      [] fn = "check_numeric"
            /\ arr.dtype \notin {"int32", "int64", "float32", "float64", "complex128"} ->
            check_subdtype(arr.dtype, <<"np.number">>, args.name)
      [] fn = "check_integerlike" /\ args.strict ->
            check_subdtype(arr.dtype, <<"np.integer">>, "Input")
      [] fn = "check_sorted" /\ Len(arr.shape) > 0 /\ ~IsNone(args.axis)
            /\ args.axis # Some(-1) ->
            AxisCheck(args.axis[1], Len(arr.shape))
      [] fn = "check_scalar" /\ isinstance_ndarray(arr) /\ Len(arr.shape) = 0 ->
            (IF args.must_be_real THEN check_real(<<arr>>, 1, args.name).out
             ELSE check_numeric(<<arr>>, 1, args.name).out)
      [] fn = "check_scalar" /\ ~isinstance_ndarray(arr) ->
            check_number(arr, "abstract", args.must_be_real, "Object")
      [] OTHER -> Ok

\* the checkers that catch the error of a nested check and raise their own
Translators == {"check_real", "check_numeric", "check_sorted"}

\* the error a translator raises in place of the one it caught
Translation ==
    CASE fn = "check_real" -> Raise("TypeError", args.name, "must have real numbers.", <<>>)
      [] fn = "check_numeric" -> Raise("TypeError", args.name, "must be numeric.", <<>>)
      [] OTHER -> Raise("ValueError", "Axis", "is out of bounds for ndim",
                        <<args.axis[1], Len(arr.shape)>>)

\* C11 as stated: the error the caller receives is the one created where the violation
\* was detected - no checker replaces the error of a nested check by another one.
C11_Original == (pc = "done" /\ Failed(Detected)) => outcome = Detected

\* C11: an error of a nested check is never suppressed and keeps its exception type; it
\* reaches the caller unchanged except in check_real, check_numeric and check_sorted,
\* which catch it and raise their own message in its place ("must have real numbers.",
\* "must be numeric.", "Axis <axis> is out of bounds for ndim <d>.").
C11_CaughtOnlyToTranslate ==
    (pc = "done" /\ Failed(Detected)) =>
        /\ outcome.kind = Detected.kind
        /\ outcome = (IF fn \in Translators THEN Translation ELSE Detected)

\* check_real caught the TypeError of check_subdtype on a complex array
C11_Witness ==
    /\ Called("check_real")
    /\ arr.dtype = "complex128"
    /\ Detected.text = "has incorrect dtype"
    /\ outcome.text = "must have real numbers."

\* the names under which a checker reports an invalid argument of the call (not the
\* checked input): the range, the axis, the lengths and the allowed shapes
ArgumentNames == {"Range", "Axis", "'exact_length'", "Min length", "Max length", "Shape"}

\* the finished call raised an error of a check_* function about the checked input
\* (errors of Python and numpy themselves carry no name at all)
RaisedAboutInput ==
    /\ pc = "done"
    /\ fn \in Checkers \cup {"check_real", "check_numeric", "check_integerlike", "check_scalar"}
    /\ Failed(outcome)
    /\ outcome.name \notin ArgumentNames \cup {""}

\* C12: every error a check_* function raises because the checked input violates the
\* condition carries the name the caller supplied, also when a nested check detects
\* the violation.
C12_ErrorsNameParameter == RaisedAboutInput => outcome.name = args.name


-----------------------------------------------------------------------------
(* Properties of the dtype checks *)

IntegerDtypes == {"uint8", "int32", "int64"}
FloatingDtypes == {"float32", "float64"}
ComplexDtypes == {"complex128"}

\* the dtypes a checker returns for at once, and the base dtypes of its subtype test
EarlyReturn(f) ==
    IF f = "check_real" THEN {"int32", "int64", "float32", "float64"}
    ELSE {"int32", "int64", "float32", "float64", "complex128"}

SubtypeTest(f) ==
    IF f = "check_real" THEN <<"np.floating", "np.integer">> ELSE <<"np.number">>

\* C13: check_real passes iff the dtype is an integer or floating subtype and raises
\* TypeError "<name> must have real numbers." otherwise (complex, boolean, non-numeric);
\* check_numeric passes iff the dtype is integer, floating or complex and raises
\* TypeError "<name> must be numeric." otherwise; a dtype of the early-return list is
\* never one the subtype test rejects.
C13_RealAndNumericIff ==
    /\ Called("check_real") =>
          outcome = (IF arr.dtype \in IntegerDtypes \cup FloatingDtypes THEN Ok
                     ELSE Raise("TypeError", args.name, "must have real numbers.", <<>>))
    /\ Called("check_numeric") =>
          outcome = (IF arr.dtype \in IntegerDtypes \cup FloatingDtypes \cup ComplexDtypes
                     THEN Ok
                     ELSE Raise("TypeError", args.name, "must be numeric.", <<>>))
    /\ (pc = "done" /\ fn \in {"check_real", "check_numeric"}
            /\ arr.dtype \in EarlyReturn(fn)) =>
          ~Failed(check_subdtype(arr.dtype, SubtypeTest(fn), args.name))

\* check_real refused a boolean array, which the subtype test saw
C13_Witness ==
    /\ Called("check_real")
    /\ arr.dtype = "bool"
    /\ outcome = Raise("TypeError", args.name, "must have real numbers.", <<>>)


\* every element of a is a whole number
Whole(a) == \A k \in 1..Len(a.data) : a.data[k] % a.den = 0

\* the arrays whose elements have a floor: boolean, integer and floating ones
HasFloor(a) == a.dtype \in {"bool"} \cup IntegerDtypes \cup FloatingDtypes

\* C14: with strict=True check_integerlike passes iff the dtype is a subtype of integer
\* and raises TypeError otherwise, whatever the values are; with strict=False it passes
\* iff every element equals its floor and raises ValueError "<name> must have
\* integer-like values." otherwise (for the arrays whose elements have a floor; of a
\* complex or non-numeric array numpy.floor itself raises TypeError).
C14_IntegerlikeIff ==
    /\ (Called("check_integerlike") /\ args.strict) =>
          /\ outcome.kind = (IF arr.dtype \in IntegerDtypes THEN "ok" ELSE "TypeError")
    /\ (Called("check_integerlike") /\ ~args.strict /\ HasFloor(arr)) =>
          outcome = (IF Whole(arr) THEN Ok
                     ELSE Raise("ValueError", args.name, "must have integer-like values.",
                                <<>>))

\* a float array of whole numbers failed the strict check
C14_Witness ==
    /\ Called("check_integerlike")
    /\ args.strict
    /\ arr.dtype = "float64"
    /\ Len(arr.data) = 2
    /\ Whole(arr)
    /\ outcome.kind = "TypeError"


-----------------------------------------------------------------------------
(* Properties of check_sorted, check_range, check_scalar and check_length *)

\* C15: a 0-dimensional input (a number or a 0-d array) passes check_sorted for every
\* ascending, strict and axis, also an axis that is out of bounds for every array.
C15_ScalarIsSorted ==
    (Called("check_sorted") /\ Len(arr.shape) = 0) => outcome = Ok

\* check_sorted returned for a 0-d array although axis 2 was asked for
C15_Witness ==
    /\ Called("check_sorted")
    /\ arr.kind = "ndarray"
    /\ arr.shape = <<>>
    /\ args.axis = Some(2)
    /\ args.strict
    /\ outcome = Ok


\* some element of a is below the lower bound of rng, some element above its upper bound
BelowLower(a, rng, strict_lower) ==
    \E k \in 1..Len(a.data) :
        IF strict_lower THEN a.data[k] <= rng.data[1] ELSE a.data[k] < rng.data[1]

AboveUpper(a, rng, strict_upper) ==
    \E k \in 1..Len(a.data) :
        IF strict_upper THEN a.data[k] >= rng.data[2] ELSE a.data[k] > rng.data[2]

\* C16: check_range validates the range before it examines the array and compares
\* with the lower bound before the upper one: a range that is not of shape (2,) or has
\* lo > hi raises ValueError named "Range" for every array (an empty one, one within
\* the bounds); with a valid range an array that violates both bounds gets the
\* "greater than" error of the lower bound.
C16_RangeFirstLowerFirst ==
    Called("check_range") =>
        /\ ~ValidRange(args.rng) => (outcome.kind = "ValueError" /\ outcome.name = "Range")
        /\ (ValidRange(args.rng) /\ BelowLower(arr, args.rng, args.strict_lower)
                /\ AboveUpper(arr, args.rng, args.strict_upper)) =>
              outcome = Raise("ValueError", args.name,
                              IF args.strict_lower THEN "values must all be greater than"
                              ELSE "values must all be greater than or equal to",
                              <<args.rng.data[1]>>)

\* an array with an element below and another above the bounds got the lower-bound error
C16_Witness ==
    /\ Called("check_range")
    /\ ValidRange(args.rng)
    /\ ~args.strict_lower /\ ~args.strict_upper
    /\ BelowLower(arr, args.rng, FALSE)
    /\ AboveUpper(arr, args.rng, FALSE)
    /\ outcome.text = "values must all be greater than or equal to"


\* the object is a number (Python or numpy) or a 0-dimensional array
IsScalarObject(a) ==
    a.kind \in {"number", "npscalar"} \/ (isinstance_ndarray(a) /\ Len(a.shape) = 0)

\* neither a number nor a 0-dimensional array of numbers
NotScalar(a) ==
    \/ ~IsScalarObject(a)
    \/ a.dtype \notin {"bool"} \cup IntegerDtypes \cup FloatingDtypes \cup ComplexDtypes

RealScalar(a) == IsScalarObject(a) /\ a.dtype \in IntegerDtypes \cup FloatingDtypes

ComplexScalar(a) == IsScalarObject(a) /\ a.dtype \in ComplexDtypes

\* C17: check_scalar raises TypeError for every input that is neither a number nor a
\* 0-dimensional array of numbers, every array with ndim > 0 included; it passes for
\* every real number and every 0-dimensional real array, and for complex ones when
\* must_be_real is False.
C17_ScalarOrTypeError ==
    Called("check_scalar") =>
        /\ NotScalar(arr) => outcome.kind = "TypeError"
        /\ RealScalar(arr) => outcome = Ok
        /\ (ComplexScalar(arr) /\ ~args.must_be_real) => outcome = Ok


\* the object whose length check_length takes: with allow_scalar a scalar counts as an
\* array of one element
Measured(a, allow_scalar) ==
    IF allow_scalar /\ IsScalarObject(a)
    THEN [a EXCEPT !.kind = "ndarray", !.shape = <<1>>]
    ELSE a

\* the number of dimensions of the object as an array (a str is one element)
NdimOf(a) == IF a.kind = "str" THEN 0 ELSE Len(a.shape)

\* the object has a length: a sequence, or an array of at least one dimension
Sized(a) ==
    \/ a.kind \in {"list", "tuple", "str"}
    \/ (isinstance_ndarray(a) /\ Len(a.shape) >= 1)

\* the length arguments are of their documented types: integers, and scalar bounds
IntegerLengths(exact_length) == IsNone(exact_length) \/ Whole(exact_length[1])

ScalarBound(bound) == IsNone(bound) \/ bound[1].shape = <<>>

IsExactLength(n, exact_length) ==
    IsNone(exact_length)
        \/ \E k \in 1..Len(exact_length[1].data) :
              exact_length[1].data[k] = n * exact_length[1].den

AtLeast(n, bound) == IsNone(bound) \/ n * bound[1].den >= bound[1].data[1]

AtMost(n, bound) == IsNone(bound) \/ n * bound[1].den <= bound[1].data[1]

\* what check_length requires of the measured object a
LengthAllowed(a) ==
    /\ args.must_be_1d => NdimOf(a) = 1
    /\ IsExactLength(a.shape[1], args.exact_length)
    /\ AtLeast(a.shape[1], args.min_length)
    /\ AtMost(a.shape[1], args.max_length)

BoundsCrossed ==
    /\ ~IsNone(args.min_length) /\ ~IsNone(args.max_length)
    /\ ScalarBound(args.min_length) /\ ScalarBound(args.max_length)
    /\ args.min_length[1].data[1] * args.max_length[1].den
          > args.max_length[1].data[1] * args.min_length[1].den

\* C18: check_length passes iff the length of the first axis is a member of
\* exact_length, at least min_length and at most max_length (each when given, the
\* bounds inclusive); it raises ValueError when min_length > max_length for every
\* array, raises ValueError with must_be_1d unless the array has exactly one dimension,
\* and fails for a scalar unless allow_scalar is set, which makes it count as length 1.
C18_CheckLengthIff ==
    Called("check_length") =>
        /\ (Sized(Measured(arr, args.allow_scalar)) /\ IntegerLengths(args.exact_length)
                /\ ScalarBound(args.min_length) /\ ScalarBound(args.max_length)) =>
              /\ outcome.kind \in {"ok", "ValueError"}
              /\ outcome = Ok <=> LengthAllowed(Measured(arr, args.allow_scalar))
        /\ (Sized(Measured(arr, args.allow_scalar)) /\ BoundsCrossed) =>
              outcome.kind = "ValueError"
        /\ (args.must_be_1d /\ NdimOf(Measured(arr, args.allow_scalar)) # 1
                /\ (Sized(arr) \/ isinstance_ndarray(arr))) =>
              outcome.kind = "ValueError"
        /\ (IsScalarObject(arr) /\ ~args.allow_scalar) => Failed(outcome)

\* a Python number passed with allow_scalar as an array of length 1, both bounds 1
C18_Witness ==
    /\ Called("check_length")
    /\ arr.kind = "number"
    /\ args.allow_scalar
    /\ args.min_length = Some(PyInt(1))
    /\ args.max_length = Some(PyInt(1))
    /\ args.exact_length = Some(PyInt(1))
    /\ outcome = Ok


\* C19: for an array of d >= 1 dimensions and an axis outside [-d, d-1] check_sorted
\* raises ValueError "Axis <axis> is out of bounds for ndim <d>." whatever the elements
\* are, and no other error; for an axis inside the interval a negative axis -k gives
\* the outcome of the axis d-k.
C19_AxisOutOfBounds ==
    (Called("check_sorted") /\ Len(arr.shape) >= 1 /\ ~IsNone(args.axis)) =>
        /\ ~AxisInBounds(args.axis, Len(arr.shape)) =>
              outcome = Raise("ValueError", "Axis", "is out of bounds for ndim",
                              <<args.axis[1], Len(arr.shape)>>)
        /\ (AxisInBounds(args.axis, Len(arr.shape)) /\ args.axis[1] < 0) =>
              outcome = OutcomeOf("check_sorted", arr,
                                  [args EXCEPT !.axis = Some(Len(arr.shape) + args.axis[1])])

\* axis 2 of a two-dimensional array was refused
C19_Witness ==
    /\ Called("check_sorted")
    /\ Len(arr.shape) = 2
    /\ args.axis = Some(2)
    /\ outcome = Raise("ValueError", "Axis", "is out of bounds for ndim", <<2, 2>>)


-----------------------------------------------------------------------------
(* Properties of validate_arrayNx3 *)

IsNx3(shape) == Len(shape) = 2 /\ shape[2] = 3

\* the error of check_shape: the array's shape is none of the allowed ones
IsShapeError(out) ==
    out.kind = "ValueError" /\ out.text \in {"Shape must be", "Shape must be one of"}

\* the caller asks for no reshape of its own: reshape_to is unset or the (-1, 3) that
\* validate_arrayNx3 sets itself
NoOwnReshape == args.reshape_to \in {None, Some(Nx3.dims)}

-----------------------------------------------------------------------------
(* Properties of nested sequences *)

\* two rows of the nested sequence differ in length
IsRagged(o) ==
    is_nested(o) /\ \E i, j \in 1..Len(o.data) : Len(o.data[i]) # Len(o.data[j])

\* the errors of a ragged input: that of the cast, and that of an object array
RaggedErrors ==
    {Raise("ValueError", "Array", "cannot be cast as numpy.ndarray", <<>>),
     Raise("TypeError", "", "Object arrays are not supported.", <<>>)}

\* C21: validate_array never accepts a ragged nested sequence, of numbers or of
\* arrays: it raises the error of the conversion, before any check, and returns no
\* value; rows of one length are converted to a two-dimensional array.
C21_RaggedRefused ==
    (Called("validate_array") /\ is_nested(arr)) =>
        IF IsRagged(arr)
        THEN /\ outcome \in RaggedErrors
             /\ result = NoResult
             /\ trace = <<>>
             /\ heap = <<arr>>
        ELSE outcome = Ok

\* [[1, 2, 3], [1, 2]] was refused
C21_Witness ==
    /\ Called("validate_array")
    /\ arr = Nested("list_of_lists", <<3, 2>>)
    /\ outcome.kind = "ValueError"
    /\ result = NoResult


-----------------------------------------------------------------------------
(* Properties of check_shape's alternatives *)

\* no allowed shape accepts the array's shape
NoneAccepts == \A i \in 1..Len(AllowedShapes) : ~Accepts(AllowedShapes[i], arr.shape)

AllAreShapes == \A i \in 1..Len(AllowedShapes) : IsShape(AllowedShapes[i])

ShapeMessages == {"Shape must be", "Shape must be one of"}

\* C23: when every allowed shape is a shape and none accepts the array, check_shape
\* raises a ValueError that names the array, states its actual shape and lists the
\* allowed shapes as the caller passed them (an int as the int, not as a tuple):
\* "Shape must be <shape>." for one alternative, "Shape must be one of <list>."
\* otherwise; check_shape raises this error in no other case.
C23_MessageListsAlternatives ==
    Called("check_shape")
    => /\ (AllAreShapes /\ NoneAccepts)
            => outcome = Outcome("ValueError", args.name,
                                 IF Len(AllowedShapes) = 1 THEN "Shape must be"
                                 ELSE "Shape must be one of",
                                 arr.shape, AllowedShapes)
       /\ outcome.text \in ShapeMessages
            => /\ NoneAccepts
               /\ outcome.alts = AllowedShapes
               /\ outcome.vals = arr.shape

C23_Witness ==
    /\ Called("check_shape")
    /\ AllowedShapes = <<ShapeInt(3), ShapeTuple(<<4, 4>>)>>
    /\ arr.shape = <<4>>
    /\ outcome.text = "Shape must be one of"
    /\ outcome.alts[1].kind = "int"


\* the i-th allowed shape decides the call: it is the first that is not a shape or
\* accepts the array
Decides(i) ==
    /\ ~IsShape(AllowedShapes[i]) \/ Accepts(AllowedShapes[i], arr.shape)
    /\ \A j \in 1..(i - 1) :
        IsShape(AllowedShapes[j]) /\ ~Accepts(AllowedShapes[j], arr.shape)

ShapeErrors == {"TypeError", "ValueError"}

\* the outcome of the call with the two allowed shapes in the other order
Swapped ==
    check_shape(<<arr>>, InputRef, ShapeArg(TRUE, <<AllowedShapes[2], AllowedShapes[1]>>),
                args.name).out

\* C27: check_shape validates and tests the allowed shapes one by one in list order
\* and returns at the first that accepts the array: an allowed shape that is not valid
\* raises its TypeError or ValueError only if none before it accepts the array, so a
\* list of an accepting and an invalid shape is accepted in one order and raises in
\* the other.
C27_LazyInListOrder ==
    Called("check_shape")
    => /\ \A i \in 1..Len(AllowedShapes) :
            Decides(i)
            => outcome = IF IsShape(AllowedShapes[i]) THEN Ok
                         ELSE _validate_shape_value(<<>>, AllowedShapes[i]).out
       /\ \A i \in 1..Len(AllowedShapes) :
            (Decides(i) /\ ~IsShape(AllowedShapes[i])) => outcome.kind \in ShapeErrors
       /\ (Len(AllowedShapes) = 2 /\ Decides(1) /\ IsShape(AllowedShapes[1])
           /\ ~IsShape(AllowedShapes[2]))
            => (outcome = Ok /\ Swapped.kind \in ShapeErrors)

\* an accepting shape placed before None
C27_Witness ==
    /\ Called("check_shape")
    /\ arr.shape = <<3>>
    /\ AllowedShapes = <<ShapeInt(-1), ShapeNone>>
    /\ outcome = Ok

-----------------------------------------------------------------------------
(* Properties of check_sorted on short arrays *)

\* the number of elements along the axis that is checked: of the flattened array when
\* axis is None
CheckedLength ==
    IF IsNone(args.axis) THEN Prod(arr.shape)
    ELSE arr.shape[PyIndex(args.axis[1], Len(arr.shape)) + 1]

\* C28: an array with fewer than two elements along the checked axis (extent 0 or 1 on
\* a valid axis, or at most one element in all when axis is None) passes check_sorted
\* for every ascending and strict: there is no adjacent pair to compare.
C28_NoPairIsSorted ==
    (/\ Called("check_sorted")
     /\ Len(arr.shape) >= 1
     /\ AxisInBounds(args.axis, Len(arr.shape))
     /\ CheckedLength < 2)
    => outcome = Ok

\* an array without rows is sorted along its first axis in strict descending order
C28_Witness ==
    /\ Called("check_sorted")
    /\ arr.shape = <<0, 2>>
    /\ args.axis = Some(0)
    /\ args.strict
    /\ ~args.ascending
    /\ outcome = Ok

-----------------------------------------------------------------------------
(* Properties of check_number *)

IsPythonNumber(o) == o.kind = "number"

IsNumpyScalar(o) == o.kind = "npscalar"

\* the numbers of a definition: the abstract numbers are Python's numbers and numpy's
\* numeric scalars, the builtin ones Python's numbers and the numpy scalars that
\* subclass float or complex, the numpy ones numpy's numeric scalars
IsNumberOf(o, definition) ==
    CASE definition = "abstract" -> IsPythonNumber(o) \/ (IsNumpyScalar(o) /\ o.dtype # "bool")
      [] definition = "builtin" ->
            IsPythonNumber(o) \/ (IsNumpyScalar(o) /\ o.dtype \in {"float64", "complex128"})
      [] definition = "numpy" -> IsNumpyScalar(o) /\ o.dtype # "bool"

\* C24: check_number returns if and only if the object is a number of the chosen
\* definition, and a real one when must_be_real; it raises TypeError otherwise.  Under
\* every definition it raises for every ndarray, also a 0-dimensional one, for every
\* np.bool_, and for every complex number when must_be_real.
C24_CheckNumberIff ==
    Called("check_number")
    => /\ outcome.kind = "ok"
            <=> /\ IsNumberOf(arr, args.definition)
                /\ args.must_be_real => arr.dtype # "complex128"
       /\ outcome.kind \in {"ok", "TypeError"}
       /\ Failed(outcome) => outcome.name = args.name
       /\ isinstance_ndarray(arr) => outcome.kind = "TypeError"
       /\ (IsNumpyScalar(arr) /\ arr.dtype = "bool") => outcome.kind = "TypeError"
       /\ (arr.dtype = "complex128" /\ args.must_be_real) => outcome.kind = "TypeError"

C24_Witness ==
    /\ Called("check_number")
    /\ arr.kind = "ndarray"
    /\ arr.shape = <<>>
    /\ arr.dtype = "int64"
    /\ args.definition = "numpy"
    /\ outcome.kind = "TypeError"


-----------------------------------------------------------------------------
(* Properties of check_greater_than, check_less_than and check_nonnegative *)

\* the value compared with is a Python int
ComparesWithInt == args.value.kind = "number" /\ args.value.dtype = "int64"

\* every element of the array is greater than v (or equal to it unless strict)
AllGreater(v, strict) ==
    \A k \in 1..Len(arr.data) :
        IF strict THEN arr.data[k] > v * arr.den ELSE arr.data[k] >= v * arr.den

AllLess(v, strict) ==
    \A k \in 1..Len(arr.data) :
        IF strict THEN arr.data[k] < v * arr.den ELSE arr.data[k] <= v * arr.den

\* the ValueError of a comparison with v
ComparisonError(text, strict, v) ==
    Raise("ValueError", args.name, IF strict THEN text ELSE text \o " or equal to", <<v>>)

\* C25: check_greater_than returns if and only if every element is > value when strict
\* and >= value otherwise, check_less_than likewise with < and <=; a strict failure
\* raises the ValueError "values must all be greater (less) than <value>", a
\* non-strict one the same with "or equal to"; check_nonnegative ends as
\* check_greater_than(arr, 0, strict=False) does: it accepts zero and rejects any
\* negative element.
C25_Comparisons ==
    /\ (Called("check_greater_than") /\ ComparesWithInt)
        => outcome = IF AllGreater(args.value.data[1], args.strict) THEN Ok
                     ELSE ComparisonError("values must all be greater than", args.strict,
                                          args.value.data[1])
    /\ (Called("check_less_than") /\ ComparesWithInt)
        => outcome = IF AllLess(args.value.data[1], args.strict) THEN Ok
                     ELSE ComparisonError("values must all be less than", args.strict,
                                          args.value.data[1])
    /\ Called("check_nonnegative")
        => /\ outcome = check_greater_than(<<arr>>, InputRef, PyInt(0), FALSE, args.name).out
           /\ outcome.kind = "ok" <=> \A k \in 1..Len(arr.data) : arr.data[k] >= 0
           /\ outcome.kind \in {"ok", "ValueError"}

\* an element equal to the value fails the strict comparison only
C25_Witness ==
    /\ Called("check_greater_than")
    /\ arr = Obj("ndarray", "int64", <<2>>, <<0, 1>>)
    /\ args.value = PyInt(0)
    /\ args.strict
    /\ outcome.text = "values must all be greater than"


-----------------------------------------------------------------------------
(* Properties of _validate_shape_value *)

ShapeValue == args.shape.alts[1]

\* the returned value is a tuple of ints, each at least -1
ReturnedValidShape ==
    /\ result.val.kind = "tuple"
    /\ result.val.dtype = "int64"
    /\ \A i \in 1..Len(result.val.data) : result.val.data[i] >= -1

\* C26: _validate_shape_value returns a valid shape or raises, and never reaches
\* its last line: what it returns is a tuple of ints that are all at least -1 (an int
\* i as (i,), a valid tuple unchanged); None, a value that is neither int nor tuple,
\* and a tuple with an item that is not an int raise TypeError; a dimension below -1
\* raises ValueError.
C26_ValidShapeOrRaises ==
    Called("_validate_shape_value")
    => /\ outcome.kind \in {"ok", "TypeError", "ValueError"}
       /\ outcome.kind = "ok" => (ReturnedValidShape /\ result.val.data = ShapeValue.dims)
       /\ ShapeValue.kind \notin {"int", "tuple"} => outcome.kind = "TypeError"
       /\ (ShapeValue.kind = "tuple" /\ ShapeValue.dims # <<>> /\ ShapeValue.item # "int")
            => outcome.kind = "TypeError"
       /\ (IsShape([ShapeValue EXCEPT !.dims = <<>>])
           /\ \E i \in 1..Len(ShapeValue.dims) : ShapeValue.dims[i] < -1)
            => outcome.kind = "ValueError"

\* the same, but for the tuples that equal a common shape
C26_BesidesCommonShapes ==
    (Called("_validate_shape_value") /\ ShapeValue.dims \notin CommonShapes)
    => C26_ValidShapeOrRaises


-----------------------------------------------------------------------------
(* Properties of read *)

BothGiven == ~IsNone(args.file_format) /\ ~IsNone(args.force_ext)

\* the forced or else the actual extension, in lower case
ReadExt == _get_ext_force(arr, args.force_ext)

\* read made exactly these calls, in this order
Calls(steps) == trace = steps

\* the outcome of reading the i-th file of the sequence by itself
ReadAlone(i) == read(arr.items[i], None, args.file_format, args.env)

\* the files of a sequence are read one by one, in order, into a MultiBlock, up to the
\* first that raises
ReadsEach ==
    IF \A i \in 1..Len(arr.items) : ~Failed(ReadAlone(i).out)
    THEN /\ outcome = Ok
         /\ result.val.by = "MultiBlock"
         /\ Len(result.val.blocks) = Len(arr.items)
         /\ \A i \in 1..Len(arr.items) : result.val.blocks[i] = ReadAlone(i).mesh
    ELSE \E i \in 1..Len(arr.items) :
            /\ \A j \in 1..(i - 1) : ~Failed(ReadAlone(j).out)
            /\ Failed(ReadAlone(i).out)
            /\ outcome = ReadAlone(i).out

\* the extension chooses exodus, grdecl, the VRML error or pickle, in this order
ByExtension ==
    CASE ReadExt \in {".e", ".exo"} -> Calls(<<"is_file", "read_exodus">>)
      [] ReadExt = ".grdecl" -> Calls(<<"is_file", "read_grdecl">>)
      [] ReadExt \in {".wrl", ".vrml"} ->
            outcome.kind = "ValueError" /\ Calls(<<"is_file">>)
      [] ReadExt \in {".pkl", ".pickle"} -> Calls(<<"is_file", "read_pickle">>)
      [] OTHER -> FALSE

\* a VTK reader is tried; without one meshio is tried unless the extension is forced
VTKThenMeshio ==
    IF ReadExt \in args.env.vtk_exts
    THEN outcome = Ok /\ result.val.by = "vtk"
         /\ Calls(<<"is_file", "get_reader", "reader.read">>)
    ELSE IF IsNone(args.force_ext)
         THEN /\ Calls(<<"is_file", "get_reader", "read_meshio">>)
              /\ IF args.env.meshio_reads THEN outcome = Ok /\ result.val.by = "meshio"
                 ELSE outcome.kind = "OSError"
    ELSE outcome.kind = "OSError" /\ Calls(<<"is_file", "get_reader">>)

\* C29: read resolves a request in a fixed order.  With file_format and force_ext
\* both given it raises ValueError before anything else; a sequence of filenames is
\* read file by file into a MultiBlock; a path that is neither a file nor a directory
\* raises FileNotFoundError; a file_format (a format, not the empty string) goes to
\* meshio; then the forced or else the actual extension, in lower case, chooses
\* exodus, grdecl, the VRML ValueError or pickle; then a VTK reader is tried; meshio
\* is the fallback only when force_ext is None, and with force_ext given and no VTK
\* reader OSError is raised and meshio is not tried.
C29_ReadOrder ==
    Called("read")
    => IF BothGiven THEN outcome.kind = "ValueError" /\ Calls(<<>>)
       ELSE IF arr.kind = "list" THEN ReadsEach
       ELSE IF arr.on_disk = "none"
            THEN outcome.kind = "FileNotFoundError" /\ Calls(<<"is_file">>)
       ELSE IF truthy(args.file_format) THEN Calls(<<"is_file", "read_meshio">>)
       ELSE IF ReadExt \in {".e", ".exo", ".grdecl", ".wrl", ".vrml", ".pkl", ".pickle"}
            THEN ByExtension
       ELSE VTKThenMeshio

\* the extension is forced, no VTK reader knows it, and meshio, which could read the
\* file, is not asked
C29_Witness ==
    /\ Called("read")
    /\ arr = PathOf(<<".obj">>, "file")
    /\ args.force_ext = Some(".obj")
    /\ args.env.meshio_reads
    /\ outcome.kind = "OSError"
    /\ trace = <<"is_file", "get_reader">>


-----------------------------------------------------------------------------
(* Properties of set_pickle_format *)

\* the call of set_pickle_format(format) has to raise
Unsupported(format) ==
    \/ lower(format) \notin {"vtk", "xml", "legacy"}
    \/ lower(format) = "vtk" /\ version_lt(args.vtk_version_info, <<9, 3>>)

\* the format after the first n calls: that of the last call that did not raise, in
\* lower case, or the format the program started with
RECURSIVE FormatAfter(_)
FormatAfter(n) ==
    IF n = 0 THEN args.pickle_format
    ELSE IF trace[n].raised THEN FormatAfter(n - 1)
    ELSE lower(trace[n].format)

\* C30: after any sequence of calls of set_pickle_format the global format is the
\* lower-cased argument of the last call that succeeded (the format before the calls
\* if none did); a call raises ValueError if and only if its lower-cased argument is
\* not 'vtk', 'xml' or 'legacy', or is 'vtk' with VTK below 9.3, and such a call
\* leaves the format as it was.
C30_LastSuccessfulFormat ==
    Called("set_pickle_format")
    => /\ PICKLE_FORMAT = FormatAfter(Len(trace))
       /\ PICKLE_FORMAT \in {"vtk", "xml", "legacy"}
       /\ \A n \in 1..Len(trace) : trace[n].raised <=> Unsupported(trace[n].format)
       /\ outcome.kind = IF trace[Len(trace)].raised THEN "ValueError" ELSE "ok"

\* 'XML' was set, then 'VTK' was refused by VTK 9.2: the format is still 'xml'
C30_Witness ==
    /\ Called("set_pickle_format")
    /\ args.vtk_version_info = <<9, 2>>
    /\ args.pickle_format = "legacy"
    /\ trace = <<[format |-> "XML", raised |-> FALSE], [format |-> "VTK", raised |-> TRUE]>>
    /\ PICKLE_FORMAT = "xml"


-----------------------------------------------------------------------------
(* Properties of the round trip through meshio *)

\* the mesh was saved with save_meshio and the file read with read_meshio, or
\* save_meshio raised
RoundTripped == pc = "done" /\ fn = "save_meshio"

\* meshio knows the type of every cell (a pixel is written as a quad, a voxel as a
\* hexahedron)
MeshioSupports(mesh) ==
    \A i \in 1..Len(mesh.celltypes) : mesh.celltypes[i] \in {5, 9, 10, 12, 8, 11, 42}

\* the type and the point ids a cell is read back with
WrittenType(t) == IF t = 8 THEN 9 ELSE IF t = 11 THEN 12 ELSE t

WrittenCell(ids, t) ==
    IF t = 8 THEN <<ids[1], ids[2], ids[4], ids[3]>>
    ELSE IF t = 11
         THEN <<ids[1], ids[2], ids[4], ids[3], ids[5], ids[6], ids[8], ids[7]>>
    ELSE ids

UnderscoreKey(k) ==
    IF k = "point ids" THEN "point_ids" ELSE IF k = "cell ids" THEN "cell_ids" ELSE k

\* grid holds the points, cells and arrays of mesh
SameMesh(grid, mesh) ==
    /\ grid.points = mesh.points
    /\ Len(grid.celltypes) = Len(mesh.celltypes)
    /\ \A i \in 1..Len(mesh.celltypes) :
        /\ grid.celltypes[i] = WrittenType(mesh.celltypes[i])
        /\ grid.conn[i] = WrittenCell(mesh.conn[i], mesh.celltypes[i])
        /\ grid.faces[i] = mesh.faces[i]
    /\ Len(grid.point_data) = Len(mesh.point_data)
    /\ \A d \in 1..Len(mesh.point_data) :
        /\ grid.point_data[d].key = UnderscoreKey(mesh.point_data[d].key)
        /\ grid.point_data[d].values = mesh.point_data[d].values
    /\ Len(grid.cell_data) = Len(mesh.cell_data)
    /\ \A d \in 1..Len(mesh.cell_data) :
        /\ grid.cell_data[d].key = UnderscoreKey(mesh.cell_data[d].key)
        /\ grid.cell_data[d].values = mesh.cell_data[d].values

\* C22: for every mesh of cells meshio knows, read_meshio of the file save_meshio
\* wrote returns a grid with the same points, the same cells in the same order with
\* the same connectivity (a pixel as a quad and a voxel as a hexahedron, with the
\* nodes reordered), and the same point and cell arrays under the keys with spaces
\* replaced by underscores, also when polyhedra and other cells are mixed.
C22_RoundTrip ==
    (RoundTripped /\ MeshioSupports(arr))
    => (outcome = Ok /\ SameMesh(result.val, arr))

\* no cell that is not a polyhedron comes after a polyhedron
PolyhedraLast(mesh) ==
    \A i \in 1..Len(mesh.celltypes) : \A j \in 1..(i - 1) :
        mesh.celltypes[j] = 42 => mesh.celltypes[i] = 42

\* the round trip of the meshes whose polyhedra come last
C22_PolyhedraLast ==
    (RoundTripped /\ MeshioSupports(arr) /\ PolyhedraLast(arr))
    => (outcome = Ok /\ SameMesh(result.val, arr))

=============================================================================
